---------------------------- MODULE Spec2Model ----------------------------
(***************************************************************************)
(* A model of Cleaner.py: the scan (get_all_files, get_all_files_windows,  *)
(* get_information_about_files, get_file_by_format), the executor          *)
(* (execute_the_selected_option, copy_or_move_files,                       *)
(* deleting_files_and_directories) and the reconciler                      *)
(* (post_cleanup_actions, get_information_about_deleted_files,             *)
(* save_and_display_cleanup_info, saving_data), and the start of main: the *)
(* settings menu (select_option, with indicator_output_selection and       *)
(* get_default_settings), the loaders of settings.json and data.json       *)
(* (get_json_content, check_settings, check_data),                         *)
(* checking_paths_for_correctness and select_directories.                  *)
(*                                                                         *)
(* Paths and file names are sequences of one-character strings, so that    *)
(* the extension pattern, os.path.join and str.split are computed on the   *)
(* characters as the code computes them.                                   *)
(***************************************************************************)
EXTENDS Integers, Sequences, FiniteSets, TLC

VARIABLES
    \* the filesystem
    fs,                 \* existing regular files: full path -> size in bytes
    dirs,               \* existing directories
    \* the scan policy (input_file_format, settings['filter_by_size'])
    file_formats,       \* [all: BOOLEAN, formats: set of extensions]
    inversion,          \* BOOLEAN
    filter_by_size,     \* [on: BOOLEAN, lo: Nat, hi: Nat]
    \* get_all_files / get_all_files_windows
    scan_path,          \* the root handed to the scanner
    num_cores,          \* os.cpu_count()
    counter,            \* the round-robin counter
    tasks,              \* the num_cores buckets of (root, files) pairs
    walk,               \* what os.walk has still to yield
    data,               \* executor.map results: per worker, <<>> until the
                        \* worker has returned, then <<its result>>
    job,                \* per worker, when its steps are followed one by one:
                        \* the files still to evaluate, whether the head
                        \* passed the existence test, and its result so far
    total,              \* what get_all_files returned
    total_windows,      \* what get_all_files_windows returned
    \* main / executor / reconciler
    pc,                 \* position of the main thread
    paths,              \* settings['paths']
    output_files,       \* settings['output_files']
    indicator_output,   \* settings['indicator_output']
    files_and_size,     \* main's list of (name, size) pairs of the scan
    list_of_selected_paths, \* the paths main scans and the sweep walks
    list_of_files,      \* full paths handed to the executor
    total_size,         \* main's total_size
    number,             \* the option chosen in selecting_an_option_for_files
    act,                \* the answer to the delete confirmation prompts
    dst,                \* the destination chosen in copy_or_move_files
    choice,             \* the answer to the prompt of copy_or_move_files
    i,                  \* index of the next file in the executor's loop
    success,            \* the executor's local success flag
    operations,         \* the progress counter
    progress,           \* the percentages progress_of_operations has printed
    boolean,            \* what execute_the_selected_option returned
    sweep,              \* subdirectories the cleanup sweep has still to visit
                        \* in the path it is walking
    sweep_roots,        \* the selected paths the sweep has still to walk
    information,        \* what get_information_about_deleted_files returned
    loaded,             \* data as check_data returned it, before the update
    should_save_history, \* what saving_data returned
    data_file,          \* data.json: <<>> when missing, else <<its content>>
    settings_file,      \* settings.json: <<>> when missing, else <<its content>>
    settings,           \* the dict check_settings returned
    filtered,           \* what filter_valid_paths returned
    new_settings,       \* what the option chosen in select_option returned:
                        \* <<>> for False, else <<the settings>>
    log,                \* the filesystem calls of the executor, in order
    printed,            \* the per-file failure lines printed by the executor
    resume,             \* where the caller of restart_script would go on if
                        \* restart_script returned
    external            \* number of changes made by other processes so far

scanVars == <<scan_path, num_cores, counter, tasks, walk, data, job, total,
             total_windows>>
policyVars == <<file_formats, inversion, filter_by_size>>
fsVars == <<fs, dirs>>
startVars == <<settings_file, settings, filtered>>
selVars == <<list_of_selected_paths, choice, sweep_roots, new_settings>>
mainVars == <<paths, output_files, indicator_output, files_and_size, list_of_files,
              total_size, number, act, dst, i, success, operations, progress,
              boolean, sweep, information, loaded, should_save_history, data_file,
              settings_file, settings, filtered, list_of_selected_paths, choice,
              sweep_roots, new_settings, log, printed, resume, external>>
vars == <<fs, dirs, file_formats, inversion, filter_by_size, scan_path, num_cores,
          counter, tasks, walk, data, job, total, total_windows, pc, paths,
          output_files, indicator_output, files_and_size, list_of_files,
          total_size, number, act, dst, i, success, operations, progress,
          boolean, sweep, information, loaded, should_save_history, data_file,
          settings_file, settings, filtered, list_of_selected_paths, choice,
          sweep_roots, new_settings, log, printed, resume, external>>

(***************************************************************************)
(* Bounds of the model.                                                    *)
(***************************************************************************)
MaxSize == 2
MaxWorkers == 2

\* the {1,10} of the extension pattern
MaxExtLen == 10

(***************************************************************************)
(* Paths.                                                                  *)
(***************************************************************************)
\* the separator s of main: '/' when the system is not Windows
s == "/"

Root1 == <<"/", "r">>
Root1D == <<"/", "r", "/", "d">>
Root1DE == <<"/", "r", "/", "d", "/", "e">>
Root1V == <<"/", "r", "/", "v", ".", "1">>
Root2 == <<"/", "q">>

\* every directory of the model, parents before children (the order of a
\* top-down os.walk)
DirOrder == <<Root1, Root1D, Root1DE, Root1V, Root2>>
AllDirs == {DirOrder[k] : k \in 1..Len(DirOrder)}

a_txt == <<"a", ".", "t", "x", "t">>
b_log == <<"b", ".", "l", "o", "g">>
mk == <<"m", "k">>
A_TXT == <<"A", ".", "T", "X", "T">>
dot_txt == <<".", "t", "x", "t">>
e_dot == <<"e", ".">>
a_b_txt == <<"a", ".", "b", ".", "t", "x", "t">>
c_ten == <<"c", ".", "0", "1", "2", "3", "4", "5", "6", "7", "8", "9">>
c_eleven == <<"c", ".", "0", "1", "2", "3", "4", "5", "6", "7", "8", "9", "0">>

\* every file name of the model, in the order a directory lists them
NameOrder == <<a_txt, b_log, mk, A_TXT, dot_txt, e_dot, a_b_txt, c_ten, c_eleven>>
AllNames == {NameOrder[k] : k \in 1..Len(NameOrder)}

txt == <<"t", "x", "t">>
log_ext == <<"l", "o", "g">>

Range(q) == {q[k] : k \in 1..Len(q)}

\* os.path.join(directory, file)
Join(directory, file) == directory \o <<s>> \o file

\* path.split(s)[-1]
LastSegment(path) ==
    LET cuts == {k \in 1..Len(path) : path[k] = s}
        last == IF cuts = {} THEN 0
                ELSE CHOOSE k \in cuts : \A j \in cuts : j <= k
    IN SubSeq(path, last + 1, Len(path))

\* d is root or lies below it
IsUnder(d, root) ==
    /\ Len(d) >= Len(root)
    /\ SubSeq(d, 1, Len(root)) = root
    /\ Len(d) > Len(root) => d[Len(root) + 1] = s

\* the directory holding d
Parent(d) ==
    LET cuts == {k \in 1..Len(d) : d[k] = s}
        last == CHOOSE k \in cuts : \A j \in cuts : j <= k
    IN SubSeq(d, 1, last - 1)

\* the file names a listing of directory d holds
FilesIn(d) == SelectSeq(NameOrder, LAMBDA n : Join(d, n) \in DOMAIN fs)

\* d is reached by a walk from root: every directory from root down to d exists
Reached(d, root) ==
    /\ IsUnder(d, root)
    /\ \A a \in AllDirs : (IsUnder(a, root) /\ IsUnder(d, a)) => a \in dirs

\* os.walk(path): the (root, files) pairs, top-down
os_walk(path) ==
    LET ds == SelectSeq(DirOrder, LAMBDA d : Reached(d, path))
    IN [k \in 1..Len(ds) |-> <<ds[k], FilesIn(ds[k])>>]


(***************************************************************************)
(* The filter predicate.                                                   *)
(***************************************************************************)
\* the positions where the pattern \.([^./\\]{1,10})$ matches in file: a dot
\* followed by 1..10 characters, none of them a dot or a separator, up to the
\* end of the string
pattern(file) ==
    {k \in 1..Len(file) :
        /\ file[k] = "."
        /\ Len(file) - k >= 1
        /\ Len(file) - k <= MaxExtLen
        /\ \A j \in (k + 1)..Len(file) : file[j] \notin {".", "/", "\\"}}

\* search(pattern, file) found a match
valid_extension(file) == pattern(file) # {}

\* valid_extension.group(1) of the leftmost match
extension(file) ==
    LET k == CHOOSE m \in pattern(file) : \A j \in pattern(file) : m <= j
    IN SubSeq(file, k + 1, Len(file))

get_file_by_format_no_inversion(file) ==
    IF ~file_formats.all
    THEN IF ~valid_extension(file) THEN FALSE
         ELSE extension(file) \in file_formats.formats
    ELSE TRUE

get_file_by_format(file) ==
    IF ~file_formats.all
    THEN IF ~valid_extension(file)
         THEN FALSE
         ELSE LET in_formats == extension(file) \in file_formats.formats
              IN IF inversion THEN ~in_formats ELSE in_formats
    ELSE TRUE

(***************************************************************************)
(* The scanners.  A result is the tuple (total_size, files_and_size,       *)
(* list_of_full_file_paths) the code returns, as a record.                 *)
(***************************************************************************)
EmptyResult ==
    [total_size |-> 0, files_and_size |-> <<>>, list_of_full_file_paths |-> <<>>]

\* os.path.exists(full_file_path) and os.path.getsize(full_file_path)
os_path_exists(full_file_path) == full_file_path \in DOMAIN fs
os_path_getsize(full_file_path) == fs[full_file_path]

worker_size_test_exclusive(file_size) ==
    ~filter_by_size.on
        \/ (filter_by_size.lo < file_size /\ file_size < filter_by_size.hi)

\* the size condition of get_information_about_files
worker_size_test(file_size) ==
    ~filter_by_size.on
        \/ (filter_by_size.lo <= file_size /\ file_size <= filter_by_size.hi)

windows_size_test_exclusive(file_size) ==
    ~filter_by_size.on
        \/ (filter_by_size.lo <= file_size /\ file_size < filter_by_size.hi)

\* the size condition of get_all_files_windows
windows_size_test(file_size) ==
    ~filter_by_size.on
        \/ (filter_by_size.lo <= file_size /\ file_size <= filter_by_size.hi)

\* the body of the inner loop of get_information_about_files, for one file
worker_file(directory, file, acc) ==
    LET full_file_path == Join(directory, file)
        format_verification == get_file_by_format(full_file_path)
    IN IF format_verification /\ os_path_exists(full_file_path)
       THEN LET file_name == LastSegment(full_file_path)
                file_size == os_path_getsize(full_file_path)
            IN IF worker_size_test(file_size)
               THEN [total_size |-> acc.total_size + file_size,
                     files_and_size |->
                         Append(acc.files_and_size, <<file_name, file_size>>),
                     list_of_full_file_paths |->
                         Append(acc.list_of_full_file_paths, full_file_path)]
               ELSE acc
       ELSE acc

RECURSIVE worker_files(_, _, _)
worker_files(directory, files, acc) ==
    IF files = <<>> THEN acc
    ELSE worker_files(directory, Tail(files),
                      worker_file(directory, Head(files), acc))

RECURSIVE worker_directories(_, _)
worker_directories(directories_and_files, acc) ==
    IF directories_and_files = <<>> THEN acc
    ELSE LET directory_and_files == Head(directories_and_files)
         IN worker_directories(Tail(directories_and_files),
                worker_files(directory_and_files[1], directory_and_files[2], acc))

\* one worker's task: the whole of get_information_about_files
get_information_about_files(directories_and_files) ==
    worker_directories(directories_and_files, EmptyResult)

\* the body of the inner loop of get_all_files_windows, for one file
windows_file(root, file, acc) ==
    LET full_file_path == Join(root, file)
        format_verification == get_file_by_format(full_file_path)
    IN IF format_verification /\ os_path_exists(full_file_path)
       THEN LET file_name == LastSegment(full_file_path)
                file_size == os_path_getsize(full_file_path)
            IN IF windows_size_test(file_size)
               THEN [total_size |-> acc.total_size + file_size,
                     files_and_size |->
                         Append(acc.files_and_size, <<file_name, file_size>>),
                     list_of_full_file_paths |->
                         Append(acc.list_of_full_file_paths, full_file_path)]
               ELSE acc
       ELSE acc

RECURSIVE windows_files(_, _, _)
windows_files(root, files, acc) ==
    IF files = <<>> THEN acc
    ELSE windows_files(root, Tail(files), windows_file(root, Head(files), acc))

RECURSIVE windows_walk(_, _)
windows_walk(walked, acc) ==
    IF walked = <<>> THEN acc
    ELSE windows_walk(Tail(walked),
                      windows_files(Head(walked)[1], Head(walked)[2], acc))

\* the whole of get_all_files_windows
get_all_files_windows(path) == windows_walk(os_walk(path), EmptyResult)

\* tasks[task_number].append((root, files)) with tasks = [[]] * num_cores: one
\* list shared by every bucket
tasks_append_shared(buckets, task_number, pair) ==
    [w \in DOMAIN buckets |-> Append(buckets[w], pair)]

\* tasks[task_number].append((root, files)); buckets are numbered from 1 here
tasks_append(buckets, task_number, pair) ==
    [buckets EXCEPT ![task_number + 1] = Append(@, pair)]

RECURSIVE merge_overwriting(_, _)
merge_overwriting(results, acc) ==
    IF results = <<>> THEN acc ELSE merge_overwriting(Tail(results), Head(results))

\* the loop "for x, y, z in data": sums and concatenates in task order
RECURSIVE merge(_, _)
merge(results, acc) ==
    IF results = <<>> THEN acc
    ELSE merge(Tail(results),
               [total_size |-> acc.total_size + Head(results).total_size,
                files_and_size |->
                    acc.files_and_size \o Head(results).files_and_size,
                list_of_full_file_paths |->
                    acc.list_of_full_file_paths
                        \o Head(results).list_of_full_file_paths])

\* the whole of get_all_files over a tree that does not change meanwhile
RECURSIVE partition(_, _, _, _)
partition(walked, buckets, count, cores) ==
    IF walked = <<>> THEN buckets
    ELSE partition(Tail(walked),
                   tasks_append(buckets, count % cores, Head(walked)),
                   count + 1, cores)

get_all_files(path, cores) ==
    LET buckets == partition(os_walk(path), [w \in 1..cores |-> <<>>], 0, cores)
    IN merge([w \in 1..cores |-> get_information_about_files(buckets[w])],
             EmptyResult)

(***************************************************************************)
(* Policies and idle values.                                               *)
(***************************************************************************)
\* what input_file_format can return: "all" comes with inversion False
FormatChoices ==
    {<<[all |-> TRUE, formats |-> {}], FALSE>>}
    \cup {<<[all |-> FALSE, formats |-> f], inv>> :
            f \in {{txt}, {txt, log_ext}}, inv \in BOOLEAN}

\* what check_settings lets through for filter_by_size: False, or [lo, hi]
\* with hi > lo, lo >= 0, hi > 0
SizeChoices ==
    {[on |-> FALSE, lo |-> 0, hi |-> 0]}
    \cup {[on |-> TRUE, lo |-> a, hi |-> b] :
            a \in 0..MaxSize, b \in 1..MaxSize + 1}

ValidSizeChoices == {c \in SizeChoices : ~c.on \/ c.lo < c.hi}

NoPaths == [correct_paths |-> <<>>, paths_not_found |-> <<>>, permission_error |-> <<>>]

NoInformation ==
    [deleted_files |-> <<>>, not_deleted_files |-> <<>>,
     total_files |-> 0, total_size |-> 0]

(***************************************************************************)
(* The values json.loads returns: a type t and a value v.  A str is a       *)
(* sequence of characters or words.  A str that split('-'), int and date()  *)
(* turn into a date is <<"date", n, iso>>: n is the day number              *)
(* (date.toordinal(), '0001-01-01' is day 1) and iso tells whether the text *)
(* is the zero-padded form that str(date) writes.  A dict is a record.      *)
(***************************************************************************)
JBool(b) == [t |-> "bool", v |-> b]
JInt(n) == [t |-> "int", v |-> n]
JFloat == [t |-> "float", v |-> 0]
JNull == [t |-> "NoneType", v |-> 0]
JStr(x) == [t |-> "str", v |-> x]
JList(q) == [t |-> "list", v |-> q]
JDict(f) == [t |-> "dict", v |-> f]

\* a file whose bytes file.read() cannot decode, and a text json.loads rejects
UndecodableBytes == [t |-> "bytes", v |-> 0]
NotJsonText == [t |-> "text", v |-> 0]

\* str(date(...)) of day n
str_date(n) == JStr(<<"date", n, TRUE>>)

\* the value of an int in arithmetic and comparisons: bool is a subclass of
\* int, True is 1 and False is 0
int_value(x) == IF x.t = "bool" THEN (IF x.v THEN 1 ELSE 0) ELSE x.v

\* isinstance(x, int)
isinstance_int(x) == x.t \in {"int", "bool"}

\* save_and_display_cleanup_info, lines 1137-1141
default_data ==
    [date_of_first_deletion |-> str_date(1),
     date_of_last_deletion |-> str_date(1),
     number_of_deletions |-> JInt(0),
     number_of_deleted_files |-> JInt(0),
     total_weight_of_deleted_files |-> JInt(0)]

\* main, lines 43-45
default_settings ==
    [paths |-> JList(<<>>), sorting |-> JBool(FALSE),
     output_files |-> JBool(FALSE), output_extensions |-> JBool(FALSE),
     filter_by_size |-> JBool(FALSE), indicator_output |-> JBool(FALSE),
     cleaned_files_report |-> JBool(FALSE)]

ScanIdle ==
    /\ scan_path = Root1
    /\ num_cores = 1
    /\ counter = 0
    /\ tasks = <<>>
    /\ walk = <<>>
    /\ data = <<>>
    /\ job = <<>>
    /\ total = EmptyResult
    /\ total_windows = EmptyResult

MainIdle ==
    /\ paths = <<Root1>>
    /\ output_files = FALSE
    /\ indicator_output = FALSE
    /\ files_and_size = <<>>
    /\ list_of_files = <<>>
    /\ total_size = 0
    /\ number = "none"
    /\ act = "none"
    /\ dst = Root1
    /\ choice = "none"
    /\ list_of_selected_paths = <<>>
    /\ sweep_roots = <<>>
    /\ new_settings = <<>>
    /\ i = 1
    /\ success = TRUE
    /\ operations = 0
    /\ progress = <<>>
    /\ boolean = "None"
    /\ sweep = <<>>
    /\ information = NoInformation
    /\ loaded = default_data
    /\ should_save_history = "None"
    /\ settings = default_settings
    /\ filtered = NoPaths
    /\ log = <<>>
    /\ printed = <<>>
    /\ resume = "none"
    /\ external = 0

(***************************************************************************)
(* SpecScan: both scanners over one static tree.                           *)
(***************************************************************************)
ScanTreeFiles == {Join(Root1, a_txt), Join(Root1D, b_log), Join(Root1DE, mk)}

\* the trees scanned: three files of every size under three directories, or a
\* single file of any of the names, in a plain or in a dotted directory
ScanTrees ==
    [ScanTreeFiles -> 0..MaxSize]
    \cup {[f \in {Join(d, n)} |-> z] :
            d \in {Root1, Root1V}, n \in AllNames, z \in {1}}

InitScan ==
    /\ fs \in ScanTrees
    /\ dirs = {Root1, Root1D, Root1DE, Root1V}
    /\ \E c \in FormatChoices : file_formats = c[1] /\ inversion = c[2]
    /\ filter_by_size \in ValidSizeChoices
    /\ scan_path = Root1
    /\ num_cores \in 1..MaxWorkers
    /\ counter = 0
    /\ tasks = [w \in 1..num_cores |-> <<>>]
    /\ walk = os_walk(scan_path)
    /\ data = [w \in 1..num_cores |-> <<>>]
    /\ job = <<>>
    /\ total = EmptyResult
    /\ total_windows = EmptyResult
    /\ pc = "walk"
    /\ MainIdle
    /\ data_file = <<>>
    /\ settings_file = <<>>

\* one iteration of the partitioning loop of get_all_files
ScanPartition ==
    /\ pc = "walk"
    /\ walk # <<>>
    /\ LET task_number == counter % num_cores
       IN tasks' = tasks_append(tasks, task_number, Head(walk))
    /\ counter' = counter + 1
    /\ walk' = Tail(walk)
    /\ UNCHANGED <<fsVars, policyVars, scan_path, num_cores, data, job, total,
                   total_windows, pc, mainVars>>

\* the walk is exhausted: the pool is started
ScanStartPool ==
    /\ pc = "walk"
    /\ walk = <<>>
    /\ pc' = "pool"
    /\ UNCHANGED <<fsVars, policyVars, scanVars, mainVars>>

\* worker w runs get_information_about_files on its bucket
ScanWorker(w) ==
    /\ pc = "pool"
    /\ data[w] = <<>>
    /\ data' = [data EXCEPT ![w] = <<get_information_about_files(tasks[w])>>]
    /\ UNCHANGED <<fsVars, policyVars, scan_path, num_cores, counter, tasks,
                   walk, job, total, total_windows, pc, mainVars>>

\* every worker has returned: the results are merged in task order
ScanMerge ==
    /\ pc = "pool"
    /\ \A w \in 1..num_cores : data[w] # <<>>
    /\ total' = merge([w \in 1..num_cores |-> data[w][1]], EmptyResult)
    /\ pc' = "merged"
    /\ UNCHANGED <<fsVars, policyVars, scan_path, num_cores, counter, tasks,
                   walk, data, job, total_windows, mainVars>>

\* the sequential scanner over the same tree
ScanWindows ==
    /\ pc = "merged"
    /\ total_windows' = get_all_files_windows(scan_path)
    /\ pc' = "scanned"
    /\ UNCHANGED <<fsVars, policyVars, scan_path, num_cores, counter, tasks,
                   walk, data, job, total, mainVars>>

NextScan ==
    \/ ScanPartition
    \/ ScanStartPool
    \/ \E w \in 1..num_cores : ScanWorker(w)
    \/ ScanMerge
    \/ ScanWindows

SpecScan == InitScan /\ [][NextScan]_vars

(***************************************************************************)
(* Properties of the scan, under SpecScan.                                 *)
(***************************************************************************)
Count(x, q) == Cardinality({k \in 1..Len(q) : q[k] = x})

SameMultiset(q1, q2) ==
    \A x \in Range(q1) \cup Range(q2) : Count(x, q1) = Count(x, q2)

RECURSIVE SumOfSizes(_)
SumOfSizes(files) ==
    IF files = {} THEN 0
    ELSE LET f == CHOOSE g \in files : TRUE
         IN fs[f] + SumOfSizes(files \ {f})

\* C4: over a static tree, for every policy and every worker count, the
\* parallel scanner and the sequential scanner return the same totalSize and
\* the same multiset of (name, size) pairs.
C4_ScannerEquivalence ==
    pc = "scanned" =>
        /\ total.total_size = total_windows.total_size
        /\ SameMultiset(total.files_and_size, total_windows.files_and_size)

\* two workers, three files found, and the two scanners list them in a
\* different order
C4_Witness ==
    /\ pc = "scanned"
    /\ num_cores >= 2
    /\ Len(total.files_and_size) = 3
    /\ total.files_and_size # total_windows.files_and_size
    /\ total.total_size > 0

\* the places (bucket, index) of the buckets that hold pair
PlacesOf(pair) ==
    {wk \in UNION {{<<w, k>> : k \in 1..Len(tasks[w])} : w \in 1..num_cores} :
        tasks[wk[1]][wk[2]] = pair}

\* C5: after the partitioning walk the buckets together hold every
\* (directory, fileNames) pair of the walk exactly once, and nothing else.
C5_Partition ==
    pc \in {"pool", "merged", "scanned"} =>
        /\ \A pair \in Range(os_walk(scan_path)) : Cardinality(PlacesOf(pair)) = 1
        /\ \A w \in 1..num_cores : \A k \in 1..Len(tasks[w]) :
               tasks[w][k] \in Range(os_walk(scan_path))

\* the walk is over, with several buckets and none of them empty
C5_Witness ==
    /\ pc = "pool"
    /\ num_cores >= 2
    /\ \A w \in 1..num_cores : Len(tasks[w]) >= 1
    /\ Len(os_walk(scan_path)) > num_cores

\* the claim's reference predicate for a file with a valid extension (or any
\* file under "all")
Included(f) ==
    /\ file_formats.all
         \/ ((extension(f) \in file_formats.formats) # inversion)
    /\ ~filter_by_size.on
         \/ (filter_by_size.lo <= fs[f] /\ fs[f] <= filter_by_size.hi)

\* a scanner's result holds exactly the files of the reference predicate, each
\* once, with its name and size, and their sizes add up to total_size
ResultIsIncluded(result) ==
    /\ \A f \in DOMAIN fs : (valid_extension(f) \/ file_formats.all) =>
           /\ Count(f, result.list_of_full_file_paths) = (IF Included(f) THEN 1 ELSE 0)
           /\ Count(<<LastSegment(f), fs[f]>>, result.files_and_size) >=
                  (IF Included(f) THEN 1 ELSE 0)
    /\ Range(result.list_of_full_file_paths) \subseteq DOMAIN fs
    /\ Len(result.files_and_size) = Len(result.list_of_full_file_paths)
    /\ result.total_size = SumOfSizes(Range(result.list_of_full_file_paths))

\* C6: a file with a valid extension is in the scan result iff (extensions is
\* "all", or (extension in the set) differs from invert) and (no size range is
\* set, or the size is within it); under "all" every name passes the extension
\* test; totalSize is the sum of the sizes of the included files.
C6_FilterReference ==
    pc = "scanned" =>
        /\ ResultIsIncluded(total)
        /\ ResultIsIncluded(total_windows)

\* an inverted policy with a size range: a .log file is included, the .txt
\* file is excluded by its extension
C6_Witness ==
    /\ pc = "scanned"
    /\ inversion
    /\ filter_by_size.on
    /\ file_formats.formats = {txt}
    /\ Join(Root1D, b_log) \in Range(total.list_of_full_file_paths)
    /\ Join(Root1, a_txt) \in DOMAIN fs
    /\ Included(Join(Root1D, b_log))
    /\ fs[Join(Root1, a_txt)] \in filter_by_size.lo..filter_by_size.hi
    /\ Join(Root1, a_txt) \notin Range(total.list_of_full_file_paths)
    /\ total.total_size = fs[Join(Root1D, b_log)]

\* C7: with a size range (min, max), min < max, a file passes the size test
\* iff min <= s <= max, in the parallel worker and in the sequential scanner
\* alike: a file outside the range is in neither result, and a file inside it
\* that passes the extension test is in both.
C7_SizeTest ==
    (pc = "scanned" /\ filter_by_size.on) =>
        \A f \in DOMAIN fs :
            LET inside == filter_by_size.lo <= fs[f] /\ fs[f] <= filter_by_size.hi
                in_parallel == f \in Range(total.list_of_full_file_paths)
                in_sequential == f \in Range(total_windows.list_of_full_file_paths)
            IN /\ ~inside => (~in_parallel /\ ~in_sequential)
               /\ (inside /\ get_file_by_format(f)) => (in_parallel /\ in_sequential)

\* files of size min and of size max are included, a file of size max + 1 is
\* excluded
C7_Witness ==
    /\ pc = "scanned"
    /\ filter_by_size.on
    /\ file_formats.all
    /\ \E f, g, h \in DOMAIN fs :
          /\ fs[f] = filter_by_size.lo
          /\ fs[g] = filter_by_size.hi
          /\ fs[h] = filter_by_size.hi + 1
          /\ {f, g} \subseteq Range(total.list_of_full_file_paths)
          /\ {f, g} \subseteq Range(total_windows.list_of_full_file_paths)
          /\ h \notin Range(total.list_of_full_file_paths)
          /\ h \notin Range(total_windows.list_of_full_file_paths)

\* C8: under a non-"all" policy a file with no extension, or with one longer
\* than 10 characters, is excluded when invert is false and passes the
\* extension test when invert is true (so it is included when it also passes
\* the size test).
C8_InvalidExtension ==
    (pc = "scanned" /\ ~file_formats.all) =>
        \A f \in DOMAIN fs : ~valid_extension(f) =>
            (f \in Range(total.list_of_full_file_paths)
                <=> (inversion /\ worker_size_test(fs[f])))

(***************************************************************************)
(* The executor and the reconciler.                                        *)
(***************************************************************************)
\* bounds: the changes made by other processes, and today's day number
MaxExternal == 1
Today == 3

\* the sizes another process may give a file
ResizeTo == {8}

\* main, lines 104-113: every path is scanned and the results accumulated
RECURSIVE scan_all(_, _)
scan_all(ps, acc) ==
    IF ps = <<>> THEN acc
    ELSE scan_all(Tail(ps), merge(<<get_all_files(Head(ps), num_cores)>>, acc))

\* the filesystem without file
Without(file) == [f \in DOMAIN fs \ {file} |-> fs[f]]

\* the filesystem with file of size z, created or overwritten
With(file, z) == [f \in DOMAIN fs \cup {file} |-> IF f = file THEN z ELSE fs[f]]

\* what os.remove(file) can do
os_remove(file) ==
    IF file \in DOMAIN fs THEN {"removed", "PermissionError", "OSError"}
    ELSE {"FileNotFoundError"}

\* the except clauses of the loop of deleting_files_and_directories
delete_catches(raised) == raised \in {"FileNotFoundError", "PermissionError"}

success_after_ignoring_not_found(flag, raised) ==
    IF raised = "FileNotFoundError" THEN flag ELSE FALSE

\* success = False in both except clauses (lines 1051, 1055)
success_after(flag, raised) == FALSE

\* round(x) for x = 100 * operations / total: to the nearest integer, a half
\* to the even one
round_percent(operations_done, total_files) ==
    LET q == (100 * operations_done) \div total_files
        r == (100 * operations_done) % total_files
    IN IF 2 * r < total_files THEN q
       ELSE IF 2 * r > total_files THEN q + 1
       ELSE IF q % 2 = 0 THEN q ELSE q + 1

progress_of_remaining(total_files, operations_done) ==
    100 - round_percent(operations_done, total_files)

\* progress_of_operations, lines 1074-1075: the percentage it prints
progress_of_operations(total_files, operations_done) ==
    LET percents == round_percent(operations_done, total_files)
    IN IF percents > 100 THEN 100 ELSE percents

\* lines 1046-1048 and 1023-1025: the counter and the report of one iteration
progress_after(shown, total_files, operations_done) ==
    IF ~output_files /\ indicator_output
    THEN Append(shown, progress_of_operations(total_files, operations_done + 1))
    ELSE shown

\* the line the loop prints for a file it could not remove
delete_message(raised) ==
    IF raised = "FileNotFoundError" THEN "not found" ELSE "could not be deleted"

\* the subdirectories of d, as a listing of d gives them
Children(d) ==
    SelectSeq(DirOrder, LAMBDA c : c \in dirs /\ Len(c) > Len(d) /\ Parent(c) = d)

\* os.walk(path, topdown=False) with the inner loop over dirnames: the
\* subdirectories in the order os.rmdir is called on them
RECURSIVE rmdir_order(_)
RECURSIVE rmdir_orders(_)
rmdir_orders(ds) ==
    IF ds = <<>> THEN <<>> ELSE rmdir_order(Head(ds)) \o rmdir_orders(Tail(ds))

rmdir_order_top_down(d) ==
    SelectSeq(DirOrder, LAMBDA c : c # d /\ Reached(c, d))

rmdir_order(d) == IF d \in dirs THEN rmdir_orders(Children(d)) \o Children(d) ELSE <<>>

\* directory d holds no file and no subdirectory
IsEmptyDir(d) ==
    /\ \A f \in DOMAIN fs : ~(Len(f) > Len(d) /\ Parent(f) = d)
    /\ Children(d) = <<>>

os_rmdir_ignoring_files(d) ==
    IF d \in dirs /\ Children(d) = <<>> THEN {"removed", "OSError"} ELSE {"OSError"}

\* what os.rmdir(d) can do
os_rmdir(d) ==
    IF d \in dirs /\ IsEmptyDir(d) THEN {"removed", "OSError"} ELSE {"OSError"}

\* what os.listdir(d) can do
os_listdir(d) ==
    IF d \in dirs THEN {"listed", "PermissionError", "OSError"}
    ELSE {"FileNotFoundError"}

after_destination_check_no_restart(listed) == "copy_loop"

\* copy_or_move_files, lines 1014-1021: restart_script() does not return
after_destination_check(listed) ==
    IF listed = "listed" THEN "copy_loop" ELSE "restart"

\* what copy(src, dst) can do: dst is a directory, the target is dst/basename
shutil_copy(src, target) ==
    IF src \notin DOMAIN fs THEN {"FileNotFoundError"}
    ELSE IF target = src THEN {"SameFileError"}
    ELSE {"copied", "OSError"}

\* what move(src, dst) can do
shutil_move(src, target) ==
    IF src \notin DOMAIN fs THEN {"FileNotFoundError"}
    ELSE IF target \in DOMAIN fs THEN {"Error"}
    ELSE {"moved", "OSError"}

\* the loop of get_information_about_deleted_files
RECURSIVE reprobe(_, _)
reprobe(files, acc) ==
    IF files = <<>> THEN acc
    ELSE LET file == Head(files)
         IN IF file \in DOMAIN fs
            THEN reprobe(Tail(files),
                     [acc EXCEPT !.not_deleted_files = Append(@, file),
                                 !.total_size = @ - os_path_getsize(file),
                                 !.total_files = @ - 1])
            ELSE reprobe(Tail(files),
                     [acc EXCEPT !.deleted_files = Append(@, file)])

get_information_about_deleted_files(files, size) ==
    reprobe(files, [deleted_files |-> <<>>, not_deleted_files |-> <<>>,
                    total_files |-> Len(files), total_size |-> size])

\* get_json_content, lines 329-337: what it returns.  A missing file raises
\* FileNotFoundError and a text that is not JSON raises JSONDecodeError, both
\* caught; a JSON value that is not a dict gives the default
get_json_content(content, default_config) ==
    IF Len(content) = 0 THEN default_config
    ELSE IF content[1].t = "text" THEN default_config
    ELSE IF content[1].t = "dict" THEN content[1].v
    ELSE default_config

\* get_json_content, line 331: file.read() raises UnicodeDecodeError, which
\* the except clause of line 336 does not name
get_json_content_raises(content) ==
    Len(content) = 1 /\ content[1].t = "bytes"

\* is_valid_dates, lines 1203-1209: the text is a str that parses as a date
parses_as_date(my_date) ==
    /\ my_date.t = "str"
    /\ Len(my_date.v) = 3
    /\ my_date.v[1] = "date"

\* is_valid_dates, lines 1199-1213
is_valid_dates(my_dates) ==
    IF ~parses_as_date(my_dates[1]) \/ ~parses_as_date(my_dates[2]) THEN FALSE
    ELSE LET list_of_dates == <<my_dates[1].v[2], my_dates[2].v[2]>>
         IN ~(list_of_dates[1] > list_of_dates[2] \/ list_of_dates[2] > Today)

DataKeys ==
    {"date_of_first_deletion", "date_of_last_deletion", "number_of_deletions",
     "number_of_deleted_files", "total_weight_of_deleted_files"}

\* check_data, lines 1182-1197
check_data(d, default) ==
    IF Cardinality(DOMAIN d) # 5 \/ ~(DataKeys \subseteq DOMAIN d) THEN default
    ELSE LET my_dates == <<d.date_of_first_deletion, d.date_of_last_deletion>>
             numbers == <<d.number_of_deletions, d.number_of_deleted_files,
                          d.total_weight_of_deleted_files>>
         IN IF \/ ~is_valid_dates(my_dates)
               \/ ~(\A k \in 1..3 : isinstance_int(numbers[k])
                                       /\ int_value(numbers[k]) >= 0)
            THEN default
            ELSE d

update_data_swapped(d, size, files) ==
    LET first_ever == d.date_of_first_deletion = str_date(1)
    IN [d EXCEPT
          !.date_of_first_deletion = IF first_ever THEN str_date(Today) ELSE @,
          !.date_of_last_deletion = str_date(Today),
          !.number_of_deletions = JInt(int_value(@) + 1),
          !.number_of_deleted_files = JInt(int_value(@) + files),
          !.total_weight_of_deleted_files = JInt(int_value(@) + size)]

update_data_keeps_last_date(d, files, size) ==
    LET first_ever == d.date_of_first_deletion = str_date(1)
    IN [d EXCEPT
          !.date_of_first_deletion = IF first_ever THEN str_date(Today) ELSE @,
          !.date_of_last_deletion = IF first_ever THEN str_date(Today) ELSE @,
          !.number_of_deletions = JInt(int_value(@) + 1),
          !.number_of_deleted_files = JInt(int_value(@) + files),
          !.total_weight_of_deleted_files = JInt(int_value(@) + size)]

\* save_and_display_cleanup_info, lines 1146-1176: the record it hands to
\* saving_data.  Line 1146 compares the text with '0001-01-01'
update_data(d, files, size) ==
    LET first_ever == d.date_of_first_deletion = str_date(1)
    IN [d EXCEPT
          !.date_of_first_deletion = IF first_ever THEN str_date(Today) ELSE @,
          !.date_of_last_deletion = str_date(Today),
          !.number_of_deletions = JInt(int_value(@) + 1),
          !.number_of_deleted_files = JInt(int_value(@) + files),
          !.total_weight_of_deleted_files = JInt(int_value(@) + size)]

\* a data.json the program wrote: dates as str(date) writes them
DataRecord(first, last, deletions, files, weight) ==
    JDict([date_of_first_deletion |-> str_date(first),
           date_of_last_deletion |-> str_date(last),
           number_of_deletions |-> JInt(deletions),
           number_of_deleted_files |-> JInt(files),
           total_weight_of_deleted_files |-> JInt(weight)])

\* what open(data_path, 'w') can do in saving_data
open_for_writing == {"opened", "PermissionError", "OSError"}

\* what dump(data, file, indent=4) and the close of the file can do once the
\* file has been opened, and so truncated: the record is written, or an
\* OSError (no space left, I/O error) leaves a truncated file
json_dump == {"written", "OSError"}

\* saving_data, line 1220: the except clause
saving_data_catches(raised) == raised = "PermissionError"

\* what data.json may hold when the program starts
DataFiles ==
    {<<>>,
     <<DataRecord(2, 2, 1, 1, 1)>>,
     <<DataRecord(3, 2, 1, 1, 1)>>}

SettingsKeys ==
    {"paths", "sorting", "output_files", "output_extensions", "filter_by_size",
     "indicator_output", "cleaned_files_report"}

\* not x
falsy(x) ==
    CASE x.t = "bool" -> ~x.v
      [] x.t = "int" -> x.v = 0
      [] x.t = "NoneType" -> TRUE
      [] x.t \in {"str", "list"} -> Len(x.v) = 0
      [] x.t = "dict" -> DOMAIN x.v = {}
      [] OTHER -> FALSE

\* check_settings, line 351: sorting in (False, 'alphabet', 'size'); the
\* comparison with False is ==, which 0 satisfies too
sorting_allowed(x) ==
    \/ isinstance_int(x) /\ int_value(x) = 0
    \/ x.t = "str" /\ x.v \in {<<"alphabet">>, <<"size">>}

\* check_settings, lines 360-363: the test of a filter_by_size that is not falsy
size_range_allowed(f) ==
    /\ f.t = "list"
    /\ Len(f.v) = 2
    /\ \A k \in 1..2 : isinstance_int(f.v[k])
    /\ int_value(f.v[2]) > int_value(f.v[1])
    /\ int_value(f.v[1]) >= 0
    /\ int_value(f.v[2]) > 0

\* check_settings, lines 339-367
check_settings(content, default) ==
    IF Cardinality(DOMAIN content) # 7 \/ ~(SettingsKeys \subseteq DOMAIN content)
    THEN default
    ELSE IF \/ content.paths.t # "list"
            \/ ~sorting_allowed(content.sorting)
            \/ content.output_files.t # "bool"
            \/ content.output_extensions.t # "bool"
            \/ content.indicator_output.t # "bool"
            \/ content.cleaned_files_report.t # "bool"
    THEN default
    ELSE IF ~(falsy(content.filter_by_size) \/ size_range_allowed(content.filter_by_size))
    THEN default
    ELSE content

\* main, line 66: the list of paths as sequences of characters
paths_of(checked) == [k \in 1..Len(checked.paths.v) |-> checked.paths.v[k].v]

\* main, line 70, as the scanners read it: "not filter_by_size or
\* filter_by_size[0] <= file_size <= filter_by_size[1]"
filter_by_size_of(checked) ==
    LET f == checked.filter_by_size
    IN IF falsy(f) THEN [on |-> FALSE, lo |-> 0, hi |-> 0]
       ELSE [on |-> TRUE, lo |-> int_value(f.v[1]), hi |-> int_value(f.v[2])]

\* a settings.json the program wrote (saving_settings)
SettingsRecord(ps, listing, indicator, size_filter) ==
    JDict([paths |-> JList([k \in 1..Len(ps) |-> JStr(ps[k])]),
           sorting |-> JBool(FALSE),
           output_files |-> JBool(listing),
           output_extensions |-> JBool(FALSE),
           filter_by_size |-> size_filter,
           indicator_output |-> JBool(indicator),
           cleaned_files_report |-> JBool(FALSE)])

\* restart_script, lines 735-738: exit() ends the program wherever
\* restart_script was called from
restart_declined(caller) == "exited"

Entry(op, file, result) == [op |-> op, file |-> file, result |-> result]

Init ==
    /\ fs = (Join(Root1, a_txt) :> 1) @@ (Join(Root1D, b_log) :> 2)
              @@ (Join(Root1DE, mk) :> 4)
    /\ \E ps \in {<<Root1>>, <<Root1, Root2>>, <<Root1, Root1D>>} : \E listing, indicator, second \in BOOLEAN :
          /\ Root2 \notin Range(ps) => second
          /\ Root1D \in Range(ps) => ~listing /\ ~indicator
          /\ dirs = {Root1, Root1D, Root1DE} \cup (IF second THEN {Root2} ELSE {})
          /\ settings_file = <<SettingsRecord(ps, listing, indicator, JBool(FALSE))>>
    /\ settings = default_settings
    /\ filtered = NoPaths
    /\ file_formats = [all |-> TRUE, formats |-> {}]
    /\ inversion = FALSE
    /\ filter_by_size = [on |-> FALSE, lo |-> 0, hi |-> 0]
    /\ scan_path = Root1
    /\ num_cores = MaxWorkers
    /\ counter = 0
    /\ tasks = <<>>
    /\ walk = <<>>
    /\ data = <<>>
    /\ job = <<>>
    /\ total = EmptyResult
    /\ total_windows = EmptyResult
    /\ pc = "greeting"
    /\ paths = <<>>
    /\ output_files = FALSE
    /\ indicator_output = FALSE
    /\ files_and_size = <<>>
    /\ list_of_files = <<>>
    /\ total_size = 0
    /\ number = "none"
    /\ act = "none"
    /\ dst = Root1
    /\ choice = "none"
    /\ list_of_selected_paths = <<>>
    /\ sweep_roots = <<>>
    /\ new_settings = <<>>
    /\ i = 1
    /\ success = TRUE
    /\ operations = 0
    /\ progress = <<>>
    /\ boolean = "None"
    /\ sweep = <<>>
    /\ information = NoInformation
    /\ loaded = default_data
    /\ should_save_history = "None"
    /\ data_file \in DataFiles
    /\ log = <<>>
    /\ printed = <<>>
    /\ resume = "none"
    /\ external = 0


(***************************************************************************)
(* The settings menu.  select_option ends in restart_script and so never   *)
(* returns into the run of main that called it.                            *)
(***************************************************************************)
confirmed_by_any_answer(answer) == TRUE

\* the test of an answer to a confirmation prompt: act.lower().strip() ==
\* 'yes' (lines 54, 634, 691, 705, 714, 717, 964, 1010) and act == 'yes'
\* (lines 968, 972)
confirmed(answer) == answer = "yes"

\* main, lines 49-63: with a settings.json the user is asked whether to change
\* the settings; without one, on a system that is not Windows,
\* get_paths_for_windows returns True and the menu opens
Greeting ==
    /\ pc = "greeting"
    /\ IF settings_file # <<>>
       THEN \E answer \in {"yes", "no"} :
               pc' = IF confirmed(answer) THEN "select_option" ELSE "load_settings"
       ELSE pc' = "select_option"
    /\ UNCHANGED <<fsVars, policyVars, scanVars, mainVars>>

\* bool(x) of a settings value
truthy(x) ==
    IF x.t = "list" THEN Len(x.v) > 0
    ELSE IF x.t = "bool" THEN x.v
    ELSE IF x.t \in {"int", "float"} THEN x.v # 0
    ELSE IF x.t = "str" THEN Len(x.v) > 0
    ELSE FALSE

\* select_option, lines 199-201 and 231-237: option 8 is offered when some
\* setting other than the paths is on.  Of the options 1 to 7, which change
\* settings.json only, the user takes option 6 here.
MenuOptions(loaded_settings) ==
    {6} \cup (IF \/ truthy(loaded_settings.sorting)
                 \/ truthy(loaded_settings.output_files)
                 \/ truthy(loaded_settings.output_extensions)
                 \/ truthy(loaded_settings.filter_by_size)
                 \/ truthy(loaded_settings.indicator_output)
                 \/ truthy(loaded_settings.cleaned_files_report)
              THEN {8} ELSE {})

\* indicator_output_selection, lines 627-653: the settings it returns on "yes"
indicator_output_selection(loaded_settings) ==
    [loaded_settings EXCEPT
        !.indicator_output = JBool(~truthy(loaded_settings.indicator_output))]

\* get_default_settings, lines 692-697
settings_returned_to_default(loaded_settings) ==
    [loaded_settings EXCEPT
        !.sorting = JBool(FALSE), !.output_files = JBool(FALSE),
        !.output_extensions = JBool(FALSE), !.filter_by_size = JBool(FALSE),
        !.indicator_output = JBool(FALSE), !.cleaned_files_report = JBool(FALSE)]

\* select_option, lines 203-249: the settings are loaded, an option is chosen
\* and called.  Of get_default_settings this is lines 690-712, up to the
\* question about the history, which is asked when data.json exists.
SelectOption ==
    /\ pc = "select_option"
    /\ IF get_json_content_raises(settings_file)
       THEN /\ pc' = "crashed"
            /\ UNCHANGED <<settings, new_settings>>
       ELSE LET loaded_settings ==
                    check_settings(get_json_content(settings_file, default_settings),
                                   default_settings)
            IN \E option \in MenuOptions(loaded_settings) :
                 IF option = 6
                 THEN \E answer \in {"yes", "no"} :
                        /\ settings' = IF confirmed(answer)
                                       THEN indicator_output_selection(loaded_settings)
                                       ELSE loaded_settings
                        /\ new_settings' = IF confirmed(answer) THEN <<settings'>>
                                           ELSE <<>>
                        /\ pc' = "menu_save"
                 ELSE \E to_default, no_paths \in {"yes", "no"} :
                        /\ ~truthy(loaded_settings.paths) => no_paths = "no"
                        /\ LET reset == IF confirmed(to_default)
                                        THEN settings_returned_to_default(loaded_settings)
                                        ELSE loaded_settings
                               cleared == truthy(loaded_settings.paths)
                                             /\ confirmed(no_paths)
                           IN /\ settings' = IF cleared
                                             THEN [reset EXCEPT !.paths = JList(<<>>)]
                                             ELSE reset
                              /\ new_settings' =
                                    IF confirmed(to_default) \/ cleared
                                    THEN <<settings'>> ELSE <<>>
                        /\ pc' = IF data_file # <<>> THEN "clear_history"
                                 ELSE "menu_save"
    /\ UNCHANGED <<fsVars, policyVars, scanVars, settings_file, filtered,
                   list_of_selected_paths, choice, sweep_roots, paths,
                   output_files, indicator_output, files_and_size,
                   list_of_files, total_size, number, act, dst, i, success,
                   operations, progress, boolean, sweep, information, loaded,
                   should_save_history, data_file, log, printed, resume,
                   external>>

\* get_default_settings, lines 713-714 and 723-724: the first question about
\* the history of deleted files
ClearHistory1 ==
    /\ pc = "clear_history"
    /\ \E answer \in {"yes", "no"} :
          /\ act' = answer
          /\ pc' = IF confirmed(answer) THEN "clear_history2" ELSE "menu_save"
    /\ UNCHANGED <<progress, startVars, selVars, fsVars, policyVars, scanVars, paths,
                   output_files, indicator_output, files_and_size,
                   list_of_files, total_size, number, dst, i, success,
                   operations, boolean, sweep, information, loaded,
                   should_save_history, data_file, log, printed, resume,
                   external>>

\* what os.remove(data_path) can do; every OSError is caught (line 721)
os_remove_data == {"removed", "OSError"}

\* get_default_settings, lines 715-724: the second question, and on "yes"
\* os.remove(data_path)
ClearHistory2 ==
    /\ pc = "clear_history2"
    /\ \E answer \in {"yes", "no"} :
          /\ act' = answer
          /\ IF confirmed(answer)
             THEN \E raised \in os_remove_data :
                     data_file' = IF raised = "removed" THEN <<>> ELSE data_file
             ELSE data_file' = data_file
    /\ pc' = "menu_save"
    /\ UNCHANGED <<progress, startVars, selVars, fsVars, policyVars, scanVars, paths,
                   output_files, indicator_output, files_and_size,
                   list_of_files, total_size, number, dst, i, success,
                   operations, boolean, sweep, information, loaded,
                   should_save_history, log, printed, resume, external>>

\* select_option, lines 251-258: saving_settings when the option returned
\* settings, then the question whether to go on changing the settings: on
\* "yes" select_option is called again, and in the end restart_script
MenuSave ==
    /\ pc = "menu_save"
    /\ \E save \in (IF new_settings # <<>> THEN {"no"} \cup open_for_writing
                    ELSE {"none"}) :
          /\ settings_file' = IF save = "opened" THEN <<JDict(new_settings[1])>>
                              ELSE settings_file
          /\ IF save = "PermissionError"
             THEN pc' = "exited" /\ UNCHANGED <<new_settings, resume>>
             ELSE IF save = "OSError"
             THEN pc' = "crashed" /\ UNCHANGED <<new_settings, resume>>
             ELSE \E answer \in {"yes", "no"} :
                    IF confirmed(answer)
                    THEN /\ pc' = "select_option"
                         /\ new_settings' = <<>>
                         /\ UNCHANGED resume
                    ELSE /\ pc' = "restart"
                         /\ resume' = "load_settings"
                         /\ UNCHANGED new_settings
    /\ UNCHANGED <<fsVars, policyVars, scanVars, settings, filtered,
                   list_of_selected_paths, choice, sweep_roots, paths,
                   output_files, indicator_output, files_and_size,
                   list_of_files, total_size, number, act, dst, i, success,
                   operations, progress, boolean, sweep, information, loaded,
                   should_save_history, data_file, log, printed, external>>

\* main, lines 65-72: the settings are loaded and checked
LoadSettings ==
    /\ pc = "load_settings"
    /\ IF get_json_content_raises(settings_file)
       THEN /\ pc' = "crashed"
            /\ UNCHANGED <<settings, paths, output_files, indicator_output,
                           filter_by_size>>
       ELSE /\ settings' = check_settings(
                               get_json_content(settings_file, default_settings),
                               default_settings)
            /\ paths' = paths_of(settings')
            /\ output_files' = settings'.output_files.v
            /\ indicator_output' = settings'.indicator_output.v
            /\ filter_by_size' = filter_by_size_of(settings')
            /\ pc' = "check_paths"
    /\ UNCHANGED <<fsVars, file_formats, inversion, scanVars, settings_file,
                   filtered, selVars, files_and_size, list_of_files, total_size, number,
                   act, dst, i, success, operations, progress, boolean, sweep,
                   information, loaded, should_save_history, data_file, log,
                   printed, resume, external>>

\* the os.listdir results filter_valid_paths may meet, one per path
ListdirOutcomes(ps) ==
    {o \in [1..Len(ps) -> {"listed", "PermissionError", "OSError", "FileNotFoundError"}] :
        \A k \in 1..Len(ps) : o[k] \in os_listdir(ps[k])}

\* filter_valid_paths, lines 293-308: a path that raises PermissionError is
\* kept among the correct paths and listed among the denied ones
RECURSIVE filter_valid_paths(_, _, _)
filter_valid_paths(ps, outcomes, acc) ==
    IF ps = <<>> THEN acc
    ELSE LET path == Head(ps)
             raised == Head(outcomes)
         IN filter_valid_paths(Tail(ps), Tail(outcomes),
              IF raised = "listed"
              THEN [acc EXCEPT !.correct_paths = Append(@, path)]
              ELSE IF raised = "FileNotFoundError"
              THEN [acc EXCEPT !.paths_not_found = Append(@, path)]
              ELSE [acc EXCEPT !.permission_error = Append(@, path),
                               !.correct_paths = Append(@, path)])

\* checking_paths_for_correctness, lines 770-773
after_checking_paths(valid) ==
    IF Len(valid.paths_not_found) + Len(valid.permission_error) > 0
    THEN "restart" ELSE "main"

\* checking_paths_for_correctness with filter_valid_paths and saving_settings.
\* An os.listdir error that filter_valid_paths does not catch leaves main.
CheckPaths ==
    /\ pc = "check_paths"
    /\ IF Len(paths) = 0
       THEN /\ pc' = "restart"
            /\ resume' = "check_paths"
            /\ UNCHANGED startVars
       ELSE \E outcomes \in ListdirOutcomes(paths) :
              IF \E k \in 1..Len(paths) : outcomes[k] = "OSError"
              THEN /\ pc' = "crashed"
                   /\ UNCHANGED <<startVars, resume>>
              ELSE LET valid == filter_valid_paths(paths, outcomes, NoPaths)
                       go_on == after_checking_paths(valid)
                   IN /\ filtered' = valid
                      /\ IF Len(valid.paths_not_found) > 0
                         THEN /\ settings' =
                                   [settings EXCEPT !.paths =
                                       JList([k \in 1..Len(valid.correct_paths) |->
                                                 JStr(valid.correct_paths[k])])]
                              /\ \E save \in {"no"} \cup open_for_writing :
                                    /\ settings_file' =
                                         IF save = "opened" THEN <<JDict(settings')>>
                                         ELSE settings_file
                                    /\ pc' = IF save \in {"no", "opened"} THEN go_on
                                             ELSE IF save = "PermissionError" THEN "exited"
                                             ELSE "crashed"
                                    /\ resume' = IF pc' = "restart" THEN "main" ELSE resume
                         ELSE /\ pc' = go_on
                              /\ resume' = IF go_on = "restart" THEN "main" ELSE resume
                              /\ UNCHANGED <<settings_file, settings>>
    /\ UNCHANGED <<fsVars, policyVars, scanVars, selVars, paths, output_files,
                   indicator_output, files_and_size, list_of_files, total_size,
                   number, act, dst, i, success, operations, progress, boolean,
                   sweep, information, loaded, should_save_history, data_file,
                   log, printed, external>>

\* the lines the user may type at the prompt of select_directories, split
DirectoryInputs == {<<"2">>, <<"3">>, <<"2", "2">>, <<"2", "02">>, <<"2", "1">>}

\* int(el) for the numerals of DirectoryInputs
int_of(el) == IF el = "1" THEN 1 ELSE IF el \in {"2", "02"} THEN 2 ELSE 3

\* select_directories, line 1102: the test of what was typed
valid_directories(typed, ps) ==
    /\ \A k \in 1..Len(typed) : 1 <= int_of(typed[k]) /\ int_of(typed[k]) <= Len(ps)
    /\ Len(typed) # 0

\* select_directories, line 1103, list(set(dirs)): the distinct strings, in
\* an order that the hashing of the strings decides
list_of_set(typed) ==
    {q \in [1..Cardinality(Range(typed)) -> Range(typed)] : Range(q) = Range(typed)}

\* select_directories: the lists it can return; an input that fails the test
\* is asked for again
select_directories(ps) ==
    UNION {list_of_set(typed) :
              typed \in {x \in DirectoryInputs : valid_directories(x, ps)}}

\* main, lines 127-135: the path of every numeral, in the order of the list
selected_paths(ps, numerals) ==
    [k \in 1..Len(numerals) |-> ps[int_of(numerals[k])]]

\* main, lines 92-102 and 124-125: with more than one path the user chooses
\* between all paths and the paths select_directories returns
SelectionsOf(ps) ==
    IF Len(ps) > 1
    THEN {ps} \cup {selected_paths(ps, numerals) : numerals \in select_directories(ps)}
    ELSE {ps}

\* main, lines 92-102 and 124-125: the choice of the paths, then
\* input_file_format
InputFileFormat ==
    /\ pc = "main"
    /\ \E selected \in SelectionsOf(paths) : list_of_selected_paths' = selected
    /\ \E c \in FormatChoices : file_formats' = c[1] /\ inversion' = c[2]
    /\ pc' = "scan"
    /\ UNCHANGED <<progress, startVars, choice, sweep_roots, new_settings, fsVars,
                   filter_by_size,
                   scanVars, paths, output_files, indicator_output,
                   files_and_size, list_of_files, total_size, number, act, dst,
                   i, success, operations, boolean, sweep, information, loaded,
                   should_save_history, data_file, log, printed, resume,
                   external>>

after_information_output_ignoring_empty(found) == "execute"

\* information_output, lines 903-905: with no file found it prints that and
\* calls restart_script, which does not return
after_information_output(found) ==
    IF Len(found.files_and_size) = 0 THEN "restart" ELSE "execute"

\* main, lines 104-116 and 127-141: the scan of every selected path, then
\* information_output, which calls restart_script when nothing was found
Scan ==
    /\ pc = "scan"
    /\ LET found == scan_all(list_of_selected_paths, EmptyResult)
       IN /\ files_and_size' = found.files_and_size
          /\ list_of_files' = found.list_of_full_file_paths
          /\ total_size' = found.total_size
          /\ pc' = after_information_output(found)
          /\ resume' = IF pc' = "restart" THEN "execute" ELSE resume
    /\ UNCHANGED <<progress, startVars, selVars, fsVars, policyVars, scanVars, paths, output_files,
                   indicator_output, number, act, dst, i, success, operations,
                   boolean, sweep, information, loaded, should_save_history,
                   data_file, log, printed, external>>

\* execute_the_selected_option, lines 954-960
Execute ==
    /\ pc = "execute"
    /\ IF Len(paths) # 1
       THEN \E n \in {"1", "2", "3"} :
               /\ number' = n
               /\ pc' = IF n = "3" THEN "confirm" ELSE "copy_select"
       ELSE number' = "none" /\ pc' = "confirm"
    /\ act' = "none"
    /\ boolean' = "None"
    /\ UNCHANGED <<progress, startVars, selVars, fsVars, policyVars, scanVars, paths, output_files,
                   indicator_output, files_and_size, list_of_files, total_size,
                   dst, i, success, operations, sweep, information, loaded,
                   should_save_history, data_file, log, printed, resume, external>>

\* execute_the_selected_option, lines 963-970: the first confirmation prompt
Confirm1 ==
    /\ pc = "confirm"
    /\ \E answer \in {"yes", "no"} :
          /\ act' = answer
          /\ pc' = IF confirmed(answer) THEN "confirm2" ELSE "post_cleanup"
    /\ UNCHANGED <<progress, startVars, selVars, fsVars, policyVars, scanVars, paths, output_files,
                   indicator_output, files_and_size, list_of_files, total_size,
                   number, dst, i, success, operations, boolean, sweep,
                   information, loaded, should_save_history, data_file, log,
                   printed, resume, external>>

\* execute_the_selected_option, lines 965-974: the second confirmation prompt;
\* on "yes" deleting_files_and_directories starts (lines 1041-1042)
Confirm2 ==
    /\ pc = "confirm2"
    /\ \E answer \in {"yes", "no"} :
          /\ act' = answer
          /\ pc' = IF confirmed(answer) THEN "delete" ELSE "post_cleanup"
    /\ i' = 1
    /\ operations' = 0
    /\ success' = TRUE
    /\ UNCHANGED <<progress, startVars, selVars, fsVars, policyVars, scanVars, paths, output_files,
                   indicator_output, files_and_size, list_of_files, total_size,
                   number, dst, boolean, sweep, information, loaded,
                   should_save_history, data_file, log, printed, resume, external>>

\* deleting_files_and_directories, lines 1044-1057: one iteration of the loop
DeleteFile ==
    /\ pc = "delete"
    /\ i <= Len(list_of_files)
    /\ LET file == list_of_files[i]
       IN \E raised \in os_remove(file) :
             /\ operations' = IF ~output_files /\ indicator_output
                              THEN operations + 1 ELSE operations
             /\ progress' = progress_after(progress, Len(list_of_files), operations)
             /\ fs' = IF raised = "removed" THEN Without(file) ELSE fs
             /\ log' = Append(log, Entry("remove", file, raised))
             /\ IF raised = "removed"
                THEN /\ i' = i + 1
                     /\ UNCHANGED <<success, printed, pc>>
                ELSE IF delete_catches(raised)
                THEN /\ success' = success_after(success, raised)
                     /\ printed' = IF output_files
                                   THEN Append(printed,
                                            [file |-> LastSegment(file),
                                             text |-> delete_message(raised)])
                                   ELSE printed
                     /\ i' = i + 1
                     /\ pc' = pc
                ELSE /\ pc' = "crashed"
                     /\ UNCHANGED <<success, printed, i>>
    /\ UNCHANGED <<startVars, selVars, dirs, policyVars, scanVars, paths, output_files,
                   indicator_output, files_and_size, list_of_files, total_size,
                   number, act, dst, boolean, sweep, information, loaded,
                   should_save_history, data_file, resume, external>>

\* deleting_files_and_directories, line 1059: the loop over the files is
\* over, the sweep starts on the selected paths
DeleteLoopEnd ==
    /\ pc = "delete"
    /\ i > Len(list_of_files)
    /\ sweep_roots' = list_of_selected_paths
    /\ sweep' = <<>>
    /\ pc' = "sweep"
    /\ UNCHANGED <<progress, startVars, list_of_selected_paths, choice,
                   new_settings, fsVars,
                   policyVars, scanVars, paths, output_files,
                   indicator_output, files_and_size, list_of_files, total_size,
                   number, act, dst, i, success, operations, boolean,
                   information, loaded, should_save_history, data_file, log,
                   printed, resume, external>>

\* deleting_files_and_directories, lines 1059-1060: os.walk(path,
\* topdown=False) of the next selected path, as the tree is by now
SweepWalk ==
    /\ pc = "sweep"
    /\ sweep = <<>>
    /\ sweep_roots # <<>>
    /\ sweep' = rmdir_order(Head(sweep_roots))
    /\ sweep_roots' = Tail(sweep_roots)
    /\ UNCHANGED <<progress, startVars, list_of_selected_paths, choice,
                   new_settings, fsVars,
                   policyVars, scanVars, pc, paths, output_files,
                   indicator_output, files_and_size, list_of_files, total_size,
                   number, act, dst, i, success, operations, boolean,
                   information, loaded, should_save_history, data_file, log,
                   printed, resume, external>>

\* deleting_files_and_directories, lines 1061-1066: one os.rmdir
SweepStep ==
    /\ pc = "sweep"
    /\ sweep # <<>>
    /\ LET subdirectory == Head(sweep)
       IN \E raised \in os_rmdir(subdirectory) :
             /\ dirs' = IF raised = "removed" THEN dirs \ {subdirectory} ELSE dirs
             /\ log' = Append(log, Entry("rmdir", subdirectory, raised))
    /\ sweep' = Tail(sweep)
    /\ UNCHANGED <<progress, startVars, selVars, fs, policyVars, scanVars, pc, paths, output_files,
                   indicator_output, files_and_size, list_of_files, total_size,
                   number, act, dst, i, success, operations, boolean,
                   information, loaded, should_save_history, data_file,
                   printed, resume, external>>

\* deleting_files_and_directories returns; execute_the_selected_option
\* returns True (lines 1068-1071, 975-977)
SweepEnd ==
    /\ pc = "sweep"
    /\ sweep = <<>>
    /\ sweep_roots = <<>>
    /\ boolean' = "True"
    /\ pc' = "post_cleanup"
    /\ UNCHANGED <<progress, startVars, selVars, fsVars, policyVars, scanVars, paths, output_files,
                   indicator_output, files_and_size, list_of_files, total_size,
                   number, act, dst, i, success, operations, sweep,
                   information, loaded, should_save_history, data_file, log,
                   printed, resume, external>>

\* copy_or_move_files, lines 992-1007: the destination is chosen
CopySelect ==
    /\ pc = "copy_select"
    /\ dst' \in Range(paths)
    /\ i' = 1
    /\ operations' = 0
    /\ success' = TRUE
    /\ pc' = "copy_confirm"
    /\ UNCHANGED <<progress, startVars, selVars, fsVars, policyVars, scanVars, paths, output_files,
                   indicator_output, files_and_size, list_of_files, total_size,
                   number, act, boolean, sweep, information, loaded,
                   should_save_history, data_file, log, printed, resume, external>>

\* copy_or_move_files, lines 1009-1012: the confirmation prompt
CopyConfirm ==
    /\ pc = "copy_confirm"
    /\ \E answer \in {"yes", "no"} :
          /\ choice' = answer
          /\ pc' = IF confirmed(answer) THEN "copy_check" ELSE "post_cleanup"
    /\ UNCHANGED <<progress, startVars, list_of_selected_paths, sweep_roots,
                   new_settings, fsVars, policyVars, scanVars, paths, output_files,
                   indicator_output, files_and_size, list_of_files, total_size,
                   number, act, dst, i, success, operations, boolean, sweep,
                   information, loaded, should_save_history, data_file, log,
                   printed, resume, external>>

\* copy_or_move_files, lines 1014-1019: os.listdir(dst)
CopyCheck ==
    /\ pc = "copy_check"
    /\ \E listed \in os_listdir(dst) :
          /\ log' = Append(log, Entry("listdir", dst, listed))
          /\ pc' = after_destination_check(listed)
          /\ resume' = IF listed = "listed" THEN resume ELSE "copy_loop"
    /\ UNCHANGED <<progress, startVars, selVars, fsVars, policyVars, scanVars, paths, output_files,
                   indicator_output, files_and_size, list_of_files, total_size,
                   number, act, dst, i, success, operations, boolean, sweep,
                   information, loaded, should_save_history, data_file,
                   printed, external>>

\* copy_or_move_files, lines 1021-1033: one iteration of the loop
CopyFile ==
    /\ pc = "copy_loop"
    /\ i <= Len(list_of_files)
    /\ LET src == list_of_files[i]
           target == Join(dst, LastSegment(src))
           word == IF number = "1" THEN "copy" ELSE "move"
       IN \E raised \in (IF number = "1" THEN shutil_copy(src, target)
                         ELSE shutil_move(src, target)) :
             /\ operations' = IF ~output_files /\ indicator_output
                              THEN operations + 1 ELSE operations
             /\ progress' = progress_after(progress, Len(list_of_files), operations)
             /\ fs' = IF raised = "copied" THEN With(target, fs[src])
                      ELSE IF raised = "moved"
                      THEN [f \in (DOMAIN fs \cup {target}) \ {src} |->
                               IF f = target THEN fs[src] ELSE fs[f]]
                      ELSE fs
             /\ log' = Append(log, Entry(word, src, raised))
             /\ IF raised \in {"copied", "moved"}
                THEN UNCHANGED <<success, printed>>
                ELSE /\ success' = FALSE
                     /\ printed' = IF output_files
                                   THEN Append(printed,
                                            [file |-> LastSegment(src),
                                             text |-> "could not be " \o word])
                                   ELSE printed
    /\ i' = i + 1
    /\ UNCHANGED <<startVars, selVars, dirs, policyVars, scanVars, pc, paths, output_files,
                   indicator_output, files_and_size, list_of_files, total_size,
                   number, act, dst, boolean, sweep, information, loaded,
                   should_save_history, data_file, resume, external>>

\* copy_or_move_files returns (lines 1035-1038)
CopyLoopEnd ==
    /\ pc = "copy_loop"
    /\ i > Len(list_of_files)
    /\ pc' = "post_cleanup"
    /\ UNCHANGED <<fsVars, policyVars, scanVars, mainVars>>

\* post_cleanup_actions with its calls: the re-probe, then
\* save_and_display_cleanup_info, which loads data.json, updates the record
\* and calls saving_data.  An exception that no except clause names leaves
\* main through error_handler, which catches only EOFError and
\* KeyboardInterrupt.  (The text file that saving_history_of_deleted_files
\* may write afterwards is not part of the model.)
PostCleanup ==
    /\ pc = "post_cleanup"
    /\ IF boolean = "True"
       THEN /\ information' = get_information_about_deleted_files(list_of_files, total_size)
            /\ IF get_json_content_raises(data_file)
               THEN /\ pc' = "crashed"
                    /\ UNCHANGED <<loaded, should_save_history, data_file, resume>>
               ELSE /\ loaded' = check_data(get_json_content(data_file, default_data),
                                            default_data)
                    /\ \E raised \in open_for_writing, dumped \in json_dump :
                          /\ raised # "opened" => dumped = "written"
                          /\ data_file' =
                               IF raised # "opened" THEN data_file
                               ELSE IF dumped = "written"
                               THEN <<JDict(update_data(loaded', information'.total_files,
                                                        information'.total_size))>>
                               ELSE <<NotJsonText>>
                          /\ IF (raised = "opened" /\ dumped = "written")
                                \/ saving_data_catches(raised)
                             THEN /\ should_save_history' =
                                       IF raised = "opened" THEN "True" ELSE "False"
                                  /\ pc' = "restart"
                                  /\ resume' = "returned"
                             ELSE /\ pc' = "crashed"
                                  /\ UNCHANGED <<should_save_history, resume>>
       ELSE /\ pc' = "restart"
            /\ resume' = "returned"
            /\ UNCHANGED <<information, loaded, should_save_history, data_file>>
    /\ UNCHANGED <<progress, startVars, selVars, fsVars, policyVars, scanVars, paths, output_files,
                   indicator_output, files_and_size, list_of_files, total_size,
                   number, act, dst, i, success, operations, boolean, sweep,
                   log, printed, external>>

\* restart_script: on "yes" error_handler(main) runs main again, a new run
\* that starts as this one did, from the filesystem and the data.json left
\* behind; otherwise exit()
Restart ==
    /\ pc = "restart"
    /\ \E answer \in {"yes", "no"} :
          pc' = IF answer = "yes" THEN "restarted" ELSE restart_declined(resume)
    /\ UNCHANGED <<fsVars, policyVars, scanVars, mainVars>>

\* another process removes a file
ExternalRemove ==
    /\ pc \notin {"exited", "crashed", "restarted"}
    /\ external < MaxExternal
    /\ \E file \in DOMAIN fs :
          fs' = Without(file)
    /\ external' = external + 1
    /\ UNCHANGED <<progress, startVars, selVars, dirs, policyVars, scanVars, pc, paths, output_files,
                   indicator_output, files_and_size, list_of_files, total_size,
                   number, act, dst, i, success, operations, boolean, sweep,
                   information, loaded, should_save_history, data_file, log,
                   printed, resume>>

\* another process changes the size of a file
ExternalResize ==
    /\ pc \notin {"exited", "crashed", "restarted"}
    /\ external < MaxExternal
    /\ \E file \in DOMAIN fs : \E z \in ResizeTo \ {fs[file]} :
          fs' = With(file, z)
    /\ external' = external + 1
    /\ UNCHANGED <<progress, startVars, selVars, dirs, policyVars, scanVars, pc, paths, output_files,
                   indicator_output, files_and_size, list_of_files, total_size,
                   number, act, dst, i, success, operations, boolean, sweep,
                   information, loaded, should_save_history, data_file, log,
                   printed, resume>>

Next ==
    \/ Greeting
    \/ SelectOption
    \/ ClearHistory1
    \/ ClearHistory2
    \/ MenuSave
    \/ LoadSettings
    \/ CheckPaths
    \/ InputFileFormat
    \/ Scan
    \/ Execute
    \/ Confirm1
    \/ Confirm2
    \/ DeleteFile
    \/ DeleteLoopEnd
    \/ SweepWalk
    \/ SweepStep
    \/ SweepEnd
    \/ CopySelect
    \/ CopyConfirm
    \/ CopyCheck
    \/ CopyFile
    \/ CopyLoopEnd
    \/ PostCleanup
    \/ Restart
    \/ ExternalRemove
    \/ ExternalResize

Spec == Init /\ [][Next]_vars

(***************************************************************************)
(* SpecRace: get_all_files with the steps of each worker followed one by   *)
(* one (the existence test of line 883, then the size read of line 885)    *)
(* while another process removes files.                                    *)
(***************************************************************************)
\* the (directory, file) pairs of a bucket, in the order the two loops of
\* get_information_about_files visit them
RECURSIVE files_of_bucket(_)
files_of_bucket(directories_and_files) ==
    IF directories_and_files = <<>> THEN <<>>
    ELSE LET directory_and_files == Head(directories_and_files)
         IN [k \in 1..Len(directory_and_files[2]) |->
                <<directory_and_files[1], directory_and_files[2][k]>>]
            \o files_of_bucket(Tail(directories_and_files))

\* get_information_about_files, lines 886-889: the size is known
worker_after_getsize(full_file_path, file_size, acc) ==
    IF worker_size_test(file_size)
    THEN [total_size |-> acc.total_size + file_size,
          files_and_size |->
              Append(acc.files_and_size, <<LastSegment(full_file_path), file_size>>),
          list_of_full_file_paths |->
              Append(acc.list_of_full_file_paths, full_file_path)]
    ELSE acc

\* what os.path.getsize(file) can do
os_path_getsize_raises(full_file_path) == full_file_path \notin DOMAIN fs

InitRace ==
    /\ fs = (Join(Root1, a_txt) :> 1) @@ (Join(Root1D, b_log) :> 2)
              @@ (Join(Root1DE, mk) :> 4)
    /\ dirs = {Root1, Root1D, Root1DE}
    /\ \E c \in FormatChoices : file_formats = c[1] /\ inversion = c[2]
    /\ filter_by_size \in {[on |-> FALSE, lo |-> 0, hi |-> 0],
                           [on |-> TRUE, lo |-> 1, hi |-> MaxSize]}
    /\ scan_path = Root1
    /\ num_cores \in 1..MaxWorkers
    /\ counter = 0
    /\ tasks = [w \in 1..num_cores |-> <<>>]
    /\ walk = os_walk(scan_path)
    /\ data = [w \in 1..num_cores |-> <<>>]
    /\ job = <<>>
    /\ total = EmptyResult
    /\ total_windows = EmptyResult
    /\ pc = "walk"
    /\ MainIdle
    /\ data_file = <<>>
    /\ settings_file = <<>>

\* the walk is exhausted: the pool is started, every worker gets its bucket
RaceStartPool ==
    /\ pc = "walk"
    /\ walk = <<>>
    /\ job' = [w \in 1..num_cores |->
                  [files |-> files_of_bucket(tasks[w]), checked |-> FALSE,
                   acc |-> EmptyResult]]
    /\ pc' = "race"
    /\ UNCHANGED <<fsVars, policyVars, scan_path, num_cores, counter, tasks,
                   walk, data, total, total_windows, mainVars>>

\* worker w, lines 880-883: the path is joined, the format verified and the
\* existence tested
RaceExists(w) ==
    /\ pc = "race"
    /\ data[w] = <<>>
    /\ job[w].files # <<>>
    /\ ~job[w].checked
    /\ LET full_file_path == Join(Head(job[w].files)[1], Head(job[w].files)[2])
           format_verification == get_file_by_format(full_file_path)
       IN job' = IF format_verification /\ os_path_exists(full_file_path)
                 THEN [job EXCEPT ![w].checked = TRUE]
                 ELSE [job EXCEPT ![w].files = Tail(@)]
    /\ UNCHANGED <<fsVars, policyVars, scan_path, num_cores, counter, tasks,
                   walk, data, total, total_windows, pc, mainVars>>

\* worker w, lines 884-889: the size is read and tested.  An exception of
\* os.path.getsize is caught neither by the worker nor by get_all_files nor
\* by main
RaceGetsize(w) ==
    /\ pc = "race"
    /\ data[w] = <<>>
    /\ job[w].files # <<>>
    /\ job[w].checked
    /\ LET full_file_path == Join(Head(job[w].files)[1], Head(job[w].files)[2])
       IN IF os_path_getsize_raises(full_file_path)
          THEN pc' = "crashed" /\ UNCHANGED job
          ELSE /\ job' = [job EXCEPT
                            ![w].acc = worker_after_getsize(full_file_path,
                                           os_path_getsize(full_file_path), @),
                            ![w].files = Tail(@),
                            ![w].checked = FALSE]
               /\ pc' = pc
    /\ UNCHANGED <<fsVars, policyVars, scan_path, num_cores, counter, tasks,
                   walk, data, total, total_windows, mainVars>>

\* worker w returns its result (line 891)
RaceReturn(w) ==
    /\ pc = "race"
    /\ data[w] = <<>>
    /\ job[w].files = <<>>
    /\ data' = [data EXCEPT ![w] = <<job[w].acc>>]
    /\ UNCHANGED <<fsVars, policyVars, scan_path, num_cores, counter, tasks,
                   walk, job, total, total_windows, pc, mainVars>>

\* every worker has returned: the results are merged in task order
RaceMerge ==
    /\ pc = "race"
    /\ \A w \in 1..num_cores : data[w] # <<>>
    /\ total' = merge([w \in 1..num_cores |-> data[w][1]], EmptyResult)
    /\ pc' = "scanned"
    /\ UNCHANGED <<fsVars, policyVars, scan_path, num_cores, counter, tasks,
                   walk, data, job, total_windows, mainVars>>

NextRace ==
    \/ ScanPartition
    \/ RaceStartPool
    \/ \E w \in 1..num_cores : RaceExists(w)
    \/ \E w \in 1..num_cores : RaceGetsize(w)
    \/ \E w \in 1..num_cores : RaceReturn(w)
    \/ RaceMerge
    \/ ExternalRemove

SpecRace == InitRace /\ [][NextRace]_vars

(***************************************************************************)
(* SpecLoad: the two loaders applied to every kind of file content.        *)
(***************************************************************************)
\* a dict with the five keys of data.json and the given values
DataDict(first, last, deletions, files, weight) ==
    JDict([date_of_first_deletion |-> first, date_of_last_deletion |-> last,
           number_of_deletions |-> deletions, number_of_deleted_files |-> files,
           total_weight_of_deleted_files |-> weight])

\* contents of data.json
DataContents ==
    << <<>>,
       <<NotJsonText>>,
       <<UndecodableBytes>>,
       <<JInt(5)>>,
       <<JList(<<JInt(1)>>)>>,
       <<DataRecord(2, 2, 1, 1, 1)>>,
       <<DataRecord(1, Today, 2, 3, 4)>>,
       <<DataRecord(Today, 2, 1, 1, 1)>>,
       <<DataRecord(2, Today + 1, 1, 1, 1)>>,
       <<DataRecord(2, 2, 0 - 1, 1, 1)>>,
       <<DataRecord(2, 2, 1, 1, 0 - 6)>>,
       <<DataDict(str_date(2), str_date(2), JInt(1), JFloat, JInt(1))>>,
       <<DataDict(str_date(2), str_date(2), JBool(TRUE), JInt(1), JInt(1))>>,
       <<DataDict(str_date(2), str_date(2), JInt(1), JStr(<<"1">>), JInt(1))>>,
       <<DataDict(JStr(<<"date", 2, FALSE>>), str_date(2), JInt(1), JInt(1), JInt(1))>>,
       <<DataDict(JStr(<<"x">>), str_date(2), JInt(1), JInt(1), JInt(1))>>,
       <<DataDict(JInt(2), str_date(2), JInt(1), JInt(1), JInt(1))>>,
       <<JDict([date_of_first_deletion |-> str_date(2),
                date_of_last_deletion |-> str_date(2),
                number_of_deletions |-> JInt(1),
                number_of_deleted_files |-> JInt(1)])>>,
       <<JDict([date_of_first_deletion |-> str_date(2),
                date_of_last_deletion |-> str_date(2),
                number_of_deletions |-> JInt(1),
                number_of_deleted_files |-> JInt(1),
                total_weight_of_deleted_files |-> JInt(1),
                comment |-> JNull])>>,
       <<JDict([date_of_first_deletion |-> str_date(2),
                date_of_last_deletion |-> str_date(2),
                number_of_deletions |-> JInt(1),
                number_of_deleted_files |-> JInt(1),
                total_weight |-> JInt(1)])>> >>

\* a size range [lo, hi] of ints
SizeRange(lo, hi) == JList(<<JInt(lo), JInt(hi)>>)

\* contents of settings.json
SettingsContents ==
    << <<>>,
       <<NotJsonText>>,
       <<UndecodableBytes>>,
       <<JList(<<>>)>>,
       <<JStr(<<"x">>)>>,
       <<SettingsRecord(<<Root1>>, FALSE, TRUE, JBool(FALSE))>>,
       <<SettingsRecord(<<Root1, Root2>>, TRUE, FALSE, SizeRange(0, MaxSize))>>,
       <<SettingsRecord(<<Root1>>, FALSE, FALSE, SizeRange(1, 1))>>,
       <<SettingsRecord(<<Root1>>, FALSE, FALSE, SizeRange(MaxSize, 1))>>,
       <<SettingsRecord(<<Root1>>, FALSE, FALSE, SizeRange(0 - 1, MaxSize))>>,
       <<SettingsRecord(<<Root1>>, FALSE, FALSE, SizeRange(0, 0))>>,
       <<SettingsRecord(<<Root1>>, FALSE, FALSE, JList(<<JBool(FALSE), JBool(TRUE)>>))>>,
       <<SettingsRecord(<<Root1>>, FALSE, FALSE, JList(<<JInt(1)>>))>>,
       <<SettingsRecord(<<Root1>>, FALSE, FALSE, JNull)>>,
       <<JDict([paths |-> JList(<<JStr(Root1)>>), sorting |-> JBool(FALSE),
                output_files |-> JBool(FALSE), output_extensions |-> JBool(FALSE),
                filter_by_size |-> JBool(FALSE), indicator_output |-> JBool(FALSE)])>>,
       <<JDict([paths |-> JList(<<JStr(Root1)>>), sorting |-> JBool(FALSE),
                output_files |-> JBool(FALSE), output_extensions |-> JBool(FALSE),
                filter_by_size |-> JBool(FALSE), indicator_output |-> JBool(FALSE),
                report |-> JBool(FALSE)])>>,
       <<JDict([paths |-> JList(<<JStr(Root1)>>), sorting |-> JBool(FALSE),
                output_files |-> JBool(FALSE), output_extensions |-> JBool(FALSE),
                filter_by_size |-> JBool(FALSE), indicator_output |-> JBool(FALSE),
                cleaned_files_report |-> JBool(FALSE), comment |-> JNull])>> >>

InitLoad ==
    /\ fs = (Join(Root1, a_txt) :> 1)
    /\ dirs = {Root1, Root2}
    /\ file_formats = [all |-> TRUE, formats |-> {}]
    /\ inversion = FALSE
    /\ filter_by_size = [on |-> FALSE, lo |-> 0, hi |-> 0]
    /\ ScanIdle
    /\ MainIdle
    /\ \E k \in 1..Len(DataContents) : data_file = DataContents[k]
    /\ \E k \in 1..Len(SettingsContents) : settings_file = SettingsContents[k]
    /\ pc = "load_data"

\* save_and_display_cleanup_info, lines 1143-1144: data.json is loaded and
\* checked
LoadData ==
    /\ pc = "load_data"
    /\ IF get_json_content_raises(data_file)
       THEN pc' = "crashed" /\ UNCHANGED loaded
       ELSE /\ loaded' = check_data(get_json_content(data_file, default_data),
                                    default_data)
            /\ pc' = "load_settings"
    /\ UNCHANGED <<fsVars, policyVars, scanVars, startVars, selVars, paths,
                   output_files,
                   indicator_output, files_and_size, list_of_files, total_size,
                   number, act, dst, i, success, operations, progress, boolean,
                   sweep, information, should_save_history, data_file, log,
                   printed, resume, external>>

NextLoad ==
    \/ LoadData
    \/ LoadSettings

SpecLoad == InitLoad /\ [][NextLoad]_vars

(***************************************************************************)
(* Properties of the executor and the reconciler, under Spec.              *)
(***************************************************************************)
\* the os.remove calls of the pass, and those that removed / did not remove
Removes == SelectSeq(log, LAMBDA e : e.op = "remove")
Removed == SelectSeq(Removes, LAMBDA e : e.result = "removed")
NotRemoved == SelectSeq(Removes, LAMBDA e : e.result # "removed")

\* the delete loop has run to its end
DeleteLoopOver == pc = "sweep" \/ boolean = "True"

\* post_cleanup_actions has run after a delete pass
Reconciled == boolean = "True" /\ pc \in {"restart", "restarted", "exited"}

C2_Scenario ==
    /\ Reconciled
    /\ should_save_history = "True"
    /\ Len(list_of_files) = 2
    /\ Len(Removed) = 1
    /\ \E j \in 1..Len(Removes) : Removes[j].result = "FileNotFoundError"

\* C2 as stated: the history update adds one file and the size of the file
\* the executor itself removed.
C2_OneFileCounted ==
    C2_Scenario =>
        /\ data_file[1].v.number_of_deleted_files.v = loaded.number_of_deleted_files.v + 1
        /\ \E j \in 1..2 :
              /\ list_of_files[j] = Removed[1].file
              /\ data_file[1].v.total_weight_of_deleted_files.v =
                     loaded.total_weight_of_deleted_files.v + files_and_size[j][2]

\* C2 as amended: the executor's success flag is False, the re-probe finds
\* both files absent and classifies both as deleted, and the history update
\* adds two files and the scan-time sizes of both.
C2_BothFilesCounted ==
    C2_Scenario =>
        /\ ~success
        /\ information.deleted_files = list_of_files
        /\ information.not_deleted_files = <<>>
        /\ information.total_files = 2
        /\ information.total_size = files_and_size[1][2] + files_and_size[2][2]
        /\ data_file[1].v.number_of_deletions.v = loaded.number_of_deletions.v + 1
        /\ data_file[1].v.number_of_deleted_files.v = loaded.number_of_deleted_files.v + 2
        /\ data_file[1].v.total_weight_of_deleted_files.v =
               loaded.total_weight_of_deleted_files.v
                   + files_and_size[1][2] + files_and_size[2][2]

C2_Witness ==
    /\ C2_Scenario
    /\ external = 1
    /\ Removes[1].result = "removed"
    /\ data_file[1].v.number_of_deleted_files.v = 3

\* the scan-time sizes of the entries of list_of_files that are in files
RECURSIVE ScanSizeOf(_, _)
ScanSizeOf(k, files) ==
    IF k = 0 THEN 0
    ELSE ScanSizeOf(k - 1, files)
           + (IF list_of_files[k] \in files THEN files_and_size[k][2] ELSE 0)

\* C3: with n files absent and m present at the re-probe,
\* adjustedTotalFiles = n and adjustedTotalSize is the sum of the scan-time
\* sizes of the n absent files, whatever the sizes of the m present files are.
C3_ReconcilerAccounting ==
    Reconciled =>
        /\ information.total_files = Len(information.deleted_files)
        /\ information.total_size =
               ScanSizeOf(Len(list_of_files), Range(information.deleted_files))

\* C9: when os.listdir(dst) fails after the confirmation, no copy and no move
\* is attempted and control never reaches the per-file loop.
C9_FailFast ==
    (\E j \in 1..Len(log) : log[j].op = "listdir" /\ log[j].result # "listed") =>
        /\ pc # "copy_loop"
        /\ \A k \in 1..Len(log) : log[k].op \notin {"copy", "move"}

\* the destination was not accessible, and the user declined the restart
C9_Witness ==
    /\ pc = "exited"
    /\ number \in {"1", "2"}
    /\ Len(list_of_files) >= 2
    /\ \E j \in 1..Len(log) : log[j].op = "listdir" /\ log[j].result # "listed"

\* the files the executor's loop has called remove, copy or move on, in order
Attempted ==
    LET calls == SelectSeq(log, LAMBDA e : e.op \in {"remove", "copy", "move"})
    IN [j \in 1..Len(calls) |-> calls[j].file]

\* C10: every file of the list is attempted exactly once, in list order, and
\* a failure on one file does not prevent the attempt on a later one: the
\* attempts are a prefix of the list while the loop runs, and the whole list
\* once a pass that has begun is over.
C10_PerFileIndependence ==
    /\ Len(Attempted) <= Len(list_of_files)
    /\ Attempted = SubSeq(list_of_files, 1, Len(Attempted))
    /\ (pc \notin {"delete", "copy_loop"} /\ Attempted # <<>>) =>
           Attempted = list_of_files

\* d holds a file or a subdirectory
HasContent(d) == ~IsEmptyDir(d)

\* C11: no step of the cleanup sweep removes a subdirectory that holds a file
\* or a subdirectory; a directory that disappears was empty when os.rmdir was
\* called on it, and every file left behind still has its directory.
C11_SweepSafety ==
    [][/\ \A d \in dirs \ dirs' : ~HasContent(d)
       /\ (\A f \in DOMAIN fs : Parent(f) \in dirs) =>
              (\A f \in DOMAIN fs' : Parent(f) \in dirs')]_vars

\* the sweep is over: it removed the emptied /r/d/e and left /r/d, which still
\* holds the file whose removal failed
C11_Witness ==
    /\ pc = "post_cleanup"
    /\ boolean = "True"
    /\ Root1DE \notin dirs
    /\ Root1D \in dirs
    /\ Join(Root1D, b_log) \in DOMAIN fs
    /\ \E j \in 1..Len(log) :
          log[j] = Entry("remove", Join(Root1D, b_log), "PermissionError")
    /\ \E j \in 1..Len(log) : log[j] = Entry("rmdir", Root1D, "OSError")

\* the executor's loop is reporting progress in this run
Reporting == ~output_files /\ indicator_output

\* C19: the percentages an executor pass reports are non-decreasing and lie
\* between 0 and 100, one is reported per attempted file when the indicator is
\* on and the per-file listing is off and none otherwise, and the one
\* reported for the last file is 100.
C19_ProgressReporting ==
    /\ \A j \in 1..Len(progress) : progress[j] >= 0 /\ progress[j] <= 100
    /\ \A j \in 1..Len(progress) : \A k \in j..Len(progress) :
           progress[j] <= progress[k]
    /\ ~Reporting => progress = <<>>
    /\ Reporting => Len(progress) = Len(Attempted)
    /\ Len(progress) = Len(list_of_files) /\ progress # <<>> =>
           progress[Len(progress)] = 100

\* a pass over three files has reported 33, 67 and 100, the second of the
\* files could not be deleted
C19_Witness ==
    /\ Reporting
    /\ pc = "sweep"
    /\ progress = <<33, 67, 100>>
    /\ Removes[2].result = "PermissionError"

\* the counters of a history record
Counters(d) ==
    <<int_value(d.number_of_deletions), int_value(d.number_of_deleted_files),
      int_value(d.total_weight_of_deleted_files)>>

\* the history record data.json holds, as the program reads it
History == check_data(get_json_content(data_file, default_data), default_data)

\* C12: whenever a pass rewrites data.json, none of number_of_deletions,
\* number_of_deleted_files and total_weight_of_deleted_files is smaller in the
\* record written than in the record that was there.
C12_HistoryMonotonicity ==
    [][(data_file' # data_file /\ data_file' # <<>> /\ data_file'[1].t = "dict") =>
          \A k \in 1..3 : Counters(data_file'[1].v)[k] >= Counters(History)[k]]_vars

\* a step of post_cleanup_actions after a Delete pass
ReconcileStep == pc = "post_cleanup" /\ boolean = "True" /\ pc' # "post_cleanup"

\* the record the history update is to write: the loaded record with 1 added
\* to the deletions, the reconciled totals added to the files and the bytes,
\* today as the last date, and today as the first date iff the loaded first
\* date is that of the default record
ExpectedHistory ==
    LET was == loaded'
    IN [date_of_first_deletion |->
            IF was.date_of_first_deletion = default_data.date_of_first_deletion
            THEN str_date(Today) ELSE was.date_of_first_deletion,
        date_of_last_deletion |-> str_date(Today),
        number_of_deletions |-> JInt(Counters(was)[1] + 1),
        number_of_deleted_files |-> JInt(Counters(was)[2] + information'.total_files),
        total_weight_of_deleted_files |->
            JInt(Counters(was)[3] + information'.total_size)]

\* C13 as stated: every reconciled pass that returns changes the persisted
\* record, to the record of the update step.
C13_EveryPassUpdatesHistory ==
    [][(ReconcileStep /\ pc' = "restart") =>
            data_file' = <<JDict(ExpectedHistory)>>]_vars

\* the removal of data.json by the history reset of the settings menu
HistoryResetStep == pc = "clear_history2" /\ data_file' = <<>>

\* C13 as amended: data.json changes only in the reconciler's step, once per
\* pass, or when the history reset of the settings menu removes it; when the
\* write succeeds the record written is the one of the update
\* step, with first date <= last date <= today; when the write is refused
\* with a PermissionError data.json is left as it was.
C13_HistoryUpdateStep ==
    [][/\ data_file' # data_file => (ReconcileStep \/ HistoryResetStep)
       /\ (ReconcileStep /\ pc' = "restart") =>
            IF should_save_history' = "True"
            THEN /\ data_file' = <<JDict(ExpectedHistory)>>
                 /\ data_file'[1].v.date_of_first_deletion.v[2]
                        <= data_file'[1].v.date_of_last_deletion.v[2]
                 /\ data_file'[1].v.date_of_last_deletion.v[2] <= Today
            ELSE should_save_history' = "False" /\ data_file' = data_file]_vars

\* a pass has added one deletion and two files to a record first written on
\* day 2: the first date is kept, the last date is today
C13_Witness ==
    /\ pc = "restart"
    /\ should_save_history = "True"
    /\ loaded = DataRecord(2, 2, 1, 1, 1).v
    /\ data_file[1].v.date_of_first_deletion = str_date(2)
    /\ data_file[1].v.date_of_last_deletion = str_date(Today)
    /\ Counters(data_file[1].v)[1] = 2
    /\ Counters(data_file[1].v)[2] = 3

\* the malformed contents the claim lists, for data.json
MalformedData(content) ==
    \/ Len(content) = 0
    \/ content[1].t \in {"text", "bytes"}
    \/ content[1].t # "dict"
    \/ DOMAIN content[1].v # DataKeys
    \/ LET d == content[1].v
           numbers == <<d.number_of_deletions, d.number_of_deleted_files,
                        d.total_weight_of_deleted_files>>
           first == d.date_of_first_deletion
           last == d.date_of_last_deletion
       IN \/ \E k \in 1..3 : numbers[k].t # "int"
          \/ \E k \in 1..3 : numbers[k].t = "int" /\ numbers[k].v < 0
          \/ /\ parses_as_date(first)
             /\ parses_as_date(last)
             /\ (first.v[2] > last.v[2] \/ last.v[2] > Today)

\* the malformed contents the claim lists, for settings.json
MalformedSettings(content) ==
    \/ Len(content) = 0
    \/ content[1].t \in {"text", "bytes"}
    \/ content[1].t # "dict"
    \/ DOMAIN content[1].v # SettingsKeys
    \/ LET f == content[1].v.filter_by_size
       IN /\ f.t = "list"
          /\ Len(f.v) = 2
          /\ \A k \in 1..2 : f.v[k].t = "int"
          /\ (f.v[1].v >= f.v[2].v \/ f.v[1].v < 0 \/ f.v[2].v < 0)

\* C14: loading a malformed settings.json or data.json raises no error and
\* gives the default settings, the default history record.
C14_MalformedStateGivesDefault ==
    /\ pc # "crashed"
    /\ (pc \in {"load_settings", "check_paths"} /\ MalformedData(data_file)) =>
           loaded = default_data
    /\ (pc = "check_paths" /\ MalformedSettings(settings_file)) =>
           settings = default_settings

\* os.listdir raised PermissionError for a configured root and listed another
OneRootDenied ==
    /\ Len(filtered.permission_error) > 0
    /\ \E k \in 1..Len(filtered.correct_paths) :
          filtered.correct_paths[k] \notin Range(filtered.permission_error)

\* C15: when one configured root is unreadable and another is readable, the
\* unreadable root is left out of the paths of the run and the run goes on to
\* the scan: it does not end in the restart prompt of the path check.
C15_UnreadableRootExcluded ==
    OneRootDenied =>
        /\ resume # "main"
        /\ Range(paths) \cap Range(filtered.permission_error) = {}

\* file f passes the policy: its extension is among the chosen ones, or is
\* not when the choice is inverted, and its size is within the range
MatchesPolicy(f) ==
    /\ file_formats.all
         \/ ((valid_extension(f) /\ extension(f) \in file_formats.formats) # inversion)
    /\ ~filter_by_size.on
         \/ (filter_by_size.lo <= fs[f] /\ fs[f] <= filter_by_size.hi)

\* no file under the paths of the run passes the policy
NoFileMatches ==
    \A f \in DOMAIN fs :
        (\E k \in 1..Len(paths) : IsUnder(f, paths[k])) => ~MatchesPolicy(f)

\* C17: when no file matches the policy in any root, the scan of main ends
\* without an error, with an empty file list and a total of zero, and main
\* goes to the restart prompt of information_output.
C17_EmptyScan ==
    [][(pc = "scan" /\ pc' # "scan" /\ NoFileMatches) =>
          /\ files_and_size' = <<>>
          /\ list_of_files' = <<>>
          /\ total_size' = 0
          /\ pc' = "restart"]_vars

\* the only .txt file was removed by another process before the scan for
\* .txt files, which found nothing
C17_Witness ==
    /\ pc = "restart"
    /\ resume = "execute"
    /\ file_formats = [all |-> FALSE, formats |-> {txt}]
    /\ ~inversion
    /\ external = 1
    /\ Len(paths) = 2
    /\ files_and_size = <<>>
    /\ total_size = 0

\* C18: when the write of data.json fails, the program goes on to the restart
\* prompt with should_save_history False, and the reconciled result is the
\* one the re-probe computed.
C18_SaveFailure ==
    [][(ReconcileStep /\ ~get_json_content_raises(data_file)
          /\ should_save_history' # "True") =>
          /\ pc' = "restart"
          /\ should_save_history' = "False"
          /\ information' = get_information_about_deleted_files(list_of_files, total_size)
      ]_vars

\* the user confirmed the deletion at both prompts
DeleteConfirmed == act = "yes" /\ pc # "confirm2"

\* the re-probe of get_information_about_deleted_files has run
ReconcilerRan == information # NoInformation

\* the run is over
RunOver == pc \in {"exited", "restarted", "crashed"}

C16_DisappearingFile ==
    /\ pc # "crashed"
    /\ pc = "scanned" =>
          \A f \in DOMAIN fs :
              (get_file_by_format(f) /\ worker_size_test(fs[f])) =>
                  f \in Range(total.list_of_full_file_paths)

\* the os.rmdir calls of the sweep, in order
Rmdirs == SelectSeq(log, LAMBDA e : e.op = "rmdir")

\* c lies strictly below d
StrictlyUnder(c, d) == c # d /\ IsUnder(c, d)

\* a step of the sweep that calls os.rmdir
RmdirStep == pc = "sweep" /\ Len(Rmdirs') = Len(Rmdirs) + 1

\* C21: no os.rmdir is called before os.remove has been called on every file
\* of the list; the walk of a selected path yields its subdirectories
\* children before their parent and os.rmdir is called on them in that order;
\* whatever os.rmdir raises, the success flag is unchanged and the sweep goes
\* on; and when the pass has returned, os.rmdir has been called on every
\* directory that is left strictly below a selected path.
C21_SweepOrdering ==
    [][/\ Rmdirs' # <<>> =>
            [j \in 1..Len(Removes') |-> Removes'[j].file] = list_of_files'
       /\ \A j, k \in 1..Len(sweep') :
            j < k => ~StrictlyUnder(sweep'[k], sweep'[j])
       /\ RmdirStep =>
            /\ Rmdirs'[Len(Rmdirs')].file = Head(sweep)
            /\ sweep' = Tail(sweep)
            /\ sweep_roots' = sweep_roots
            /\ success' = success
            /\ pc' = "sweep"
       /\ (pc = "sweep" /\ pc' # "sweep") =>
            /\ boolean' = "True"
            /\ \A d \in dirs' : \A k \in 1..Len(list_of_selected_paths') :
                  StrictlyUnder(d, list_of_selected_paths'[k]) =>
                      \E j \in 1..Len(Rmdirs') : Rmdirs'[j].file = d]_vars

\* a Delete pass over /r and /q removed every file; os.rmdir failed on the
\* empty /r/d/e and then on /r/d, and the pass returned with success still
\* True
C21_Witness ==
    /\ pc = "post_cleanup"
    /\ boolean = "True"
    /\ success
    /\ list_of_selected_paths = <<Root1, Root2>>
    /\ DOMAIN fs = {}
    /\ Len(Rmdirs) = 2
    /\ Rmdirs[1] = Entry("rmdir", Root1DE, "OSError")
    /\ Rmdirs[2] = Entry("rmdir", Root1D, "OSError")

\* the result of one pass over the tree as it is, file after file
SequentialResult == get_all_files_windows(scan_path)

\* C22: get_all_files returns only when every worker has returned, and over
\* a tree that no other process changed its result has, whatever the order
\* of the workers' steps, the total size, the (name, size) pairs and the full
\* paths of one sequential pass, each as many times.
C22_MergeDeterminism ==
    /\ pc # "scanned" => total = EmptyResult
    /\ pc = "scanned" =>
          \A w \in 1..num_cores : data[w] # <<>> /\ job[w].files = <<>>
    /\ (pc = "scanned" /\ external = 0) =>
          /\ total.total_size = SequentialResult.total_size
          /\ SameMultiset(total.files_and_size, SequentialResult.files_and_size)
          /\ SameMultiset(total.list_of_full_file_paths,
                          SequentialResult.list_of_full_file_paths)

\* two workers shared the three directories of an unchanged tree; the merged
\* result lists the three files in task order, not in the order of the walk
C22_Witness ==
    /\ pc = "scanned"
    /\ external = 0
    /\ num_cores = 2
    /\ Len(total.list_of_full_file_paths) = 3
    /\ total.list_of_full_file_paths # SequentialResult.list_of_full_file_paths
    /\ total.total_size = 7

\* C23: the cleanup sweep removes no selected path itself: every directory it
\* removes lies strictly below a selected path and is not one of them.
C23_RootsKept ==
    [][pc = "sweep" =>
          \A d \in dirs \ dirs' :
              /\ d \notin Range(list_of_selected_paths)
              /\ \E k \in 1..Len(list_of_selected_paths) :
                    StrictlyUnder(d, list_of_selected_paths[k])]_vars

\* a step of the program, as opposed to a change made by another process
ProgramStep == external' = external

\* the order of the prompts: the second delete prompt follows a "yes" to the
\* first, the delete loop a "yes" to both, the sweep the delete loop, and the
\* copy loop a "yes" to the destination prompt
PromptsGuardTheWork ==
    /\ (pc' = "confirm2" /\ pc # "confirm2") => (pc = "confirm" /\ act' = "yes")
    /\ (pc' = "delete" /\ pc # "delete") =>
          (pc = "confirm2" /\ act = "yes" /\ act' = "yes")
    /\ (pc' = "sweep" /\ pc # "sweep") => pc = "delete"
    /\ (pc' = "copy_check" /\ pc # "copy_check") =>
          (pc = "copy_confirm" /\ choice' = "yes")
    /\ (pc' = "copy_loop" /\ pc # "copy_loop") => pc = "copy_check"
    /\ (fs' # fs \/ dirs' # dirs) => pc \in {"delete", "sweep", "copy_loop"}
    /\ (dirs' # dirs \/ \E f \in DOMAIN fs : f \notin DOMAIN fs') =>
          (pc \in {"delete", "sweep"} \/ (pc = "copy_loop" /\ number = "2"))

\* a "no" to a delete prompt or to the destination prompt changes neither the
\* files, nor the directories, nor data.json, and ends the pass
DecliningChangesNothing ==
    /\ (pc \in {"confirm", "confirm2"} /\ act' # "yes") =>
          (pc' = "post_cleanup" /\ boolean' = "None"
              /\ UNCHANGED <<fs, dirs, data_file, log>>)
    /\ (pc = "copy_confirm" /\ choice' # "yes") =>
          (pc' = "post_cleanup" /\ boolean' = "None"
              /\ UNCHANGED <<fs, dirs, data_file, log>>)
    /\ (pc = "post_cleanup" /\ boolean # "True") => data_file' = data_file

\* the reconciler's write of data.json after a pass confirmed twice
HistoryWrittenByConfirmedPass ==
    pc = "post_cleanup" /\ boolean = "True" /\ number \in {"3", "none"}
        /\ act = "yes"

\* the removal of data.json by the reset of the settings menu, after a "yes"
\* to both of its questions
HistoryRemovedByConfirmedReset ==
    pc = "clear_history2" /\ act = "yes" /\ act' = "yes" /\ data_file' = <<>>

\* C24 as stated: no file or directory is removed and data.json is not changed
\* unless both delete prompts of the run were answered "yes"; nothing is copied
\* or moved unless the destination was confirmed; a declined prompt leaves the
\* files and the history as they were.
C24_NothingUnconfirmed ==
    [][ProgramStep =>
          /\ PromptsGuardTheWork
          /\ DecliningChangesNothing
          /\ data_file' # data_file => HistoryWrittenByConfirmedPass]_vars

\* C24, amended: as C24, except that data.json is also removed by the reset of
\* the settings menu, and then only after a "yes" to both of its questions;
\* that reset changes no scanned file and no directory.
C24_ConfirmedChangesOnly ==
    [][ProgramStep =>
          /\ PromptsGuardTheWork
          /\ DecliningChangesNothing
          /\ (pc' = "clear_history2" /\ pc # "clear_history2") =>
                (pc = "clear_history" /\ act' = "yes")
          /\ data_file' # data_file =>
                (HistoryWrittenByConfirmedPass \/ HistoryRemovedByConfirmedReset)]_vars

\* the second delete prompt was answered "no" after files were listed: no
\* filesystem call was made and the pass goes on to post_cleanup_actions with
\* nothing to reconcile
C24_Witness ==
    /\ pc = "post_cleanup"
    /\ act = "no"
    /\ boolean = "None"
    /\ number \in {"3", "none"}
    /\ list_of_files # <<>>
    /\ data_file # <<>>
    /\ log = <<>>
    /\ external = 0

\* C25: the file list of a pass holds every full path at most once, whatever
\* the configured paths and the selection are.
C25_EachFileOnce ==
    \A j, k \in 1..Len(list_of_files) :
        j # k => list_of_files[j] # list_of_files[k]

=============================================================================
